---- MODULE Spec2Model ----
(***************************************************************************)
(* Ordered content extraction and rendering of src/main.py:                *)
(*   TiebaPostScraperAPI   (forum family)                                  *)
(*   WeChatArticleScraperAPI (article family)                              *)
(*                                                                         *)
(* Strings are sequences of atoms.  In a text every atom is one character  *)
(* (so Len is Python's len); the TLA+ toolchain reads ASCII only, so a     *)
(* CJK character is written as one atom with a romanised name:             *)
(*   "shou","qi3","hui","fu" = U+6536 U+8D77 U+56DE U+590D, and so on.     *)
(*   "o." = U+3002, "f!" = U+FF01, "f?" = U+FF1F, "f," = U+FF0C,           *)
(*   "f;" = U+FF1B, "LF" = \n, "CR" = \r.                                  *)
(* In a URL an atom is a unit of the URL ("https:", "/", a host label,     *)
(* "."); the code never takes the length of a URL.                         *)
(***************************************************************************)
EXTENDS Integers, Sequences, FiniteSets, TLC

\* ------------------------------------------------------------------------
\* Python str operations
\* ------------------------------------------------------------------------

\* str.isspace() of one character
WS == {" ", "LF", "CR"}

Digits == {"0", "1", "2", "3", "4", "5", "6", "7", "8", "9"}

Min(a, b) == IF a < b THEN a ELSE b

\* s.startswith(p)
StartsWith(s, p) ==
    /\ Len(p) <= Len(s)
    /\ \A i \in 1..Len(p) : s[i] = p[i]

\* s.endswith(p)
EndsWith(s, p) ==
    /\ Len(p) <= Len(s)
    /\ \A i \in 1..Len(p) : s[Len(s) - Len(p) + i] = p[i]

\* p occurs in s at index i
MatchAt(s, p, i) ==
    /\ i + Len(p) - 1 <= Len(s)
    /\ \A j \in 1..Len(p) : s[i + j - 1] = p[j]

\* p in s
Contains(s, p) == \E i \in 1..(Len(s) + 1) : MatchAt(s, p, i)

\* s.strip()
Strip(s) ==
    LET keep == {i \in 1..Len(s) : s[i] \notin WS}
    IN  IF keep = {} THEN <<>>
        ELSE LET lo == CHOOSE i \in keep : \A j \in keep : i <= j
                 hi == CHOOSE i \in keep : \A j \in keep : j <= i
             IN  SubSeq(s, lo, hi)

\* the least and the greatest element of a non-empty set of integers
Least(S) == CHOOSE i \in S : \A j \in S : i <= j

Greatest(S) == CHOOSE i \in S : \A j \in S : j <= i

\* s.rstrip(chars)
RStrip(s, chars) ==
    LET keep == {i \in 1..Len(s) : s[i] \notin chars}
    IN  IF keep = {} THEN <<>> ELSE SubSeq(s, 1, Greatest(keep))

\* ' '.join(s.split()): runs of whitespace become one space, none at the ends
CollapseWhitespace(s) ==
    LET t == Strip(s)
        idx == SelectSeq([i \in 1..Len(t) |-> i],
                         LAMBDA i : t[i] \notin WS \/ t[i - 1] \notin WS)
    IN  [k \in 1..Len(idx) |-> IF t[idx[k]] \in WS THEN " " ELSE t[idx[k]]]

\* s.split(d) for a non-empty delimiter d: the pieces from index start on
RECURSIVE SplitFrom(_, _, _)
SplitFrom(s, d, start) ==
    LET hits == {j \in start..Len(s) : MatchAt(s, d, j)}
    IN  IF hits = {} THEN <<SubSeq(s, start, Len(s))>>
        ELSE <<SubSeq(s, start, Least(hits) - 1)>>
                 \o SplitFrom(s, d, Least(hits) + Len(d))

Split(s, d) == SplitFrom(s, d, 1)

\* sep.join(parts)
RECURSIVE Join(_, _)
Join(parts, sep) ==
    IF parts = <<>> THEN <<>>
    ELSE IF Len(parts) = 1 THEN parts[1]
    ELSE parts[1] \o sep \o Join(Tail(parts), sep)

\* s.isdigit()
IsDigit(s) == s # <<>> /\ \A i \in 1..Len(s) : s[i] \in Digits

\* The character references html.unescape decodes that the model carries
\* (the library table is far larger; these are the ones a serialised
\* document itself produces).
Entities ==
    << [ref |-> <<"&", "a", "m", "p", ";">>, chr |-> "&"],
       [ref |-> <<"&", "l", "t", ";">>,      chr |-> "<"],
       [ref |-> <<"&", "g", "t", ";">>,      chr |-> ">"] >>

\* the references html.unescape resolves: the named ones and the numeric
\* reference of the space character
UnescapeEntities ==
    Entities \o << [ref |-> <<"&", "#", "3", "2", ";">>, chr |-> " "] >>

\* html.unescape(s): one left-to-right pass
RECURSIVE UnescapeFrom(_, _)
UnescapeFrom(s, i) ==
    LET at == {j \in i..Len(s) :
                  \E k \in 1..Len(UnescapeEntities) : MatchAt(s, UnescapeEntities[k].ref, j)}
    IN  IF at = {} THEN SubSeq(s, i, Len(s))
        ELSE LET j == Least(at)
                 k == CHOOSE h \in 1..Len(UnescapeEntities) : MatchAt(s, UnescapeEntities[h].ref, j)
             IN  SubSeq(s, i, j - 1) \o <<UnescapeEntities[k].chr>>
                     \o UnescapeFrom(s, j + Len(UnescapeEntities[k].ref))

html_unescape(s) == UnescapeFrom(s, 1)

\* The serialiser's minimal entity substitution of a text node (str(tag))
RECURSIVE EscapeFrom(_, _)
EscapeFrom(s, i) ==
    LET at == {j \in i..Len(s) :
                  \E k \in 1..Len(Entities) : s[j] = Entities[k].chr}
    IN  IF at = {} THEN SubSeq(s, i, Len(s))
        ELSE LET j == Least(at)
                 k == CHOOSE h \in 1..Len(Entities) : s[j] = Entities[h].chr
             IN  SubSeq(s, i, j - 1) \o Entities[k].ref \o EscapeFrom(s, j + 1)

EscapeText(s) == EscapeFrom(s, 1)

\* ------------------------------------------------------------------------
\* The parsed document (BeautifulSoup tree / browser DOM)
\* ------------------------------------------------------------------------

\* A NavigableString
TextNode(s) ==
    [kind |-> "text", tag |-> "", text |-> s, src |-> <<>>,
     data_original |-> <<>>, original |-> <<>>, data_src |-> <<>>,
     class |-> {}, alt |-> <<>>, kids |-> <<>>]

\* A Tag with children
Element(tag, kids) ==
    [kind |-> "el", tag |-> tag, text |-> <<>>, src |-> <<>>,
     data_original |-> <<>>, original |-> <<>>, data_src |-> <<>>,
     class |-> {}, alt |-> <<>>, kids |-> kids]

\* An <img>; an attribute that is not set is the empty string
ImgElement(src, lazy, class, alt) ==
    [kind |-> "el", tag |-> "img", text |-> <<>>, src |-> src,
     data_original |-> lazy, original |-> <<>>, data_src |-> lazy,
     class |-> class, alt |-> alt, kids |-> <<>>]

BrElement == Element("br", <<>>)

\* tag.find_all(True): every descendant Tag, in document order
RECURSIVE find_all(_)
find_all(n) ==
    LET RECURSIVE Over(_)
        Over(ks) ==
            IF ks = <<>> THEN <<>>
            ELSE (IF ks[1].kind = "el" THEN <<ks[1]>> \o find_all(ks[1]) ELSE <<>>)
                     \o Over(Tail(ks))
    IN  Over(n.kids)

\* tag.find_all(names)
find_all_named(n, names) == SelectSeq(find_all(n), LAMBDA e : e.tag \in names)

\* bool(tag.find(names))
has_descendant(n, names) == find_all_named(n, names) # <<>>

\* every NavigableString under the tag, in document order (tag.descendants)
RECURSIVE strings_of(_)
strings_of(n) ==
    LET RECURSIVE Over(_)
        Over(ks) ==
            IF ks = <<>> THEN <<>>
            ELSE (IF ks[1].kind = "text" THEN <<ks[1].text>> ELSE strings_of(ks[1]))
                     \o Over(Tail(ks))
    IN  Over(n.kids)

\* tag.get_text()
get_text(n) == Join(strings_of(n), <<>>)

NonEmptyStripped(strs) ==
    SelectSeq([i \in 1..Len(strs) |-> Strip(strs[i])], LAMBDA s : s # <<>>)

\* tag.get_text(strip=True)
get_text_strip(n) == Join(NonEmptyStripped(strings_of(n)), <<>>)

\* tag.get_text(separator=' ', strip=True)
get_text_sep_strip(n) == Join(NonEmptyStripped(strings_of(n)), <<" ">>)

BlockTags == {"p", "div", "section", "h1", "h2", "h3", "h4", "h5", "h6"}

\* element.inner_text() of the browser: the text of the subtree, a line break
\* for <br> and around each block-level child
RECURSIVE inner_text_raw(_)
inner_text_raw(n) ==
    LET RECURSIVE Over(_)
        Over(ks) ==
            IF ks = <<>> THEN <<>>
            ELSE (CASE ks[1].kind = "text" -> ks[1].text
                    [] ks[1].tag = "br" -> <<"LF">>
                    [] ks[1].tag \in BlockTags -> <<"LF">> \o inner_text_raw(ks[1]) \o <<"LF">>
                    [] OTHER -> inner_text_raw(ks[1]))
                     \o Over(Tail(ks))
    IN  Over(n.kids)

inner_text(n) == inner_text_raw(n)

\* str(tag): the markup as a sequence of atoms; a tag is one atom
RECURSIVE Serialize(_)
Serialize(n) ==
    LET RECURSIVE Over(_)
        Over(ks) == IF ks = <<>> THEN <<>> ELSE Serialize(ks[1]) \o Over(Tail(ks))
    IN  CASE n.kind = "text" -> EscapeText(n.text)
          [] n.tag = "br" -> <<"<br/>">>
          [] n.tag = "img" -> <<"<img/>">>
          [] OTHER -> <<"<tag>">> \o Over(n.kids) \o <<"</tag>">>

\* ------------------------------------------------------------------------
\* Text Validity Filter (forum family)
\* ------------------------------------------------------------------------

\* filter_patterns of _is_valid_text_content, in list order
filter_patterns ==
    << <<"dian", "ji1", "zhan", "kai", ",", "cha", "kan", "wan", "zheng", "tu", "pian">>,
       <<"shou", "qi3", "hui", "fu">>,
       <<"cha", "kan", "quan", "bu">>,
       <<"xian", "shi4", "quan", "bu", "lou", "ceng">>,
       <<"zhi", "kan", "lou", "zhu">>,
       <<"lai", "zi">>,
       <<"shi3", "yong">>,
       <<"ke", "hu", "duan">>,
       <<"geng", "duo">>,
       <<"A", "P", "P">>,
       <<"shou3", "ji2", "ban">>,
       <<"gai", "lou", "ceng", "yi", "si", "wei", "gui">>,
       <<"yin", "cang", "ci", "lou">>,
       <<"cha", "kan", "ci", "lou">>,
       <<"tie", "ba">>,
       <<"bai", "du">>,
       <<"deng", "lu">>,
       <<"zhu4", "ce">> >>

SinglePunctuation ==
    { <<".">>, <<"o.">>, <<"!">>, <<"f!">>, <<"?">>, <<"f?">>,
      <<",">>, <<"f,">>, <<"f;">>, <<";">> }

ShortNoise == { <<"hui", "fu">>, <<"ju", "bao">>, <<"shan", "chu">> }

MinTextLen == 3

\* the blacklist loop of _is_valid_text_content
ContainsFilterPattern(text) ==
    \E k \in 1..Len(filter_patterns) : Contains(text, filter_patterns[k])

\* _is_valid_text_content(text, processed_texts)
is_valid_text_content(text, processed_texts) ==
    /\ ~(text = <<>> \/ Len(text) < MinTextLen)
    /\ text \notin processed_texts
    /\ ~ContainsFilterPattern(text)
    /\ ~(\/ IsDigit(text)
         \/ StartsWith(text, <<"h", "t", "t", "p">>)
         \/ text \in SinglePunctuation)
    /\ ~(Len(Strip(text)) = 1 /\ Strip(text) \in ShortNoise)

QuoteMarkers == { <<"hui", "fu">>, <<"@">>, <<"#">> }

TrailingFiller == {"_", "-", "=", "+"}

\* _clean_text_content(text): none is Python's None
clean_text_content(text) ==
    LET t == html_unescape(CollapseWhitespace(text))
    IN  IF \E m \in QuoteMarkers : StartsWith(t, m)
        THEN [none |-> TRUE, text |-> <<>>]
        ELSE [none |-> FALSE, text |-> Strip(RStrip(t, TrailingFiller))]

\* "if clean_text": neither None nor the empty string
Truthy(c) == ~c.none /\ c.text # <<>>

\* ------------------------------------------------------------------------
\* Image references
\* ------------------------------------------------------------------------

TiebaOrigin == <<"https:", "/", "/", "tieba", ".", "baidu", ".", "com">>

WeChatOrigin == <<"https:", "/", "/", "mp", ".", "weixin", ".", "qq", ".", "com">>

\* the two branches in the other order: '/path' is tested first
ResolveUrl_RootFirst(img_src, origin) ==
    IF StartsWith(img_src, <<"/">>) THEN origin \o img_src
    ELSE IF StartsWith(img_src, <<"/", "/">>) THEN <<"https:">> \o img_src
    ELSE img_src

\* the relative-URL branches: '//host/path' and '/path'
ResolveUrl(img_src, origin) ==
    IF StartsWith(img_src, <<"/", "/">>) THEN <<"https:">> \o img_src
    ELSE IF StartsWith(img_src, <<"/">>) THEN origin \o img_src
    ELSE img_src

\* a or b or c over attribute values
FirstSet(vals) ==
    LET set == SelectSeq(vals, LAMBDA v : v # <<>>)
    IN  IF set = <<>> THEN <<>> ELSE set[1]

\* img.get('src') or img.get('data-original') or img.get('original')
TiebaImgSrc(img) == FirstSet(<<img.src, img.data_original, img.original>>)

\* element.get('src') or element.get('data-src')
WeChatImgSrc(img) == FirstSet(<<img.src, img.data_src>>)

\* the allow pattern left out: every image with a source is a content image
IsTiebaContentImage_AllowAll(img_src, class) == TRUE

\* the media hosts left out of the pattern: any Baidu address is let through
IsTiebaContentImage_AnyBaidu(img_src, class) ==
    Contains(img_src, <<"baidu", ".", "com">>) \/ "BDE_Image" \in class

\* the forum allow pattern: a Baidu media host, or the content-image class
IsTiebaContentImage(img_src, class) ==
    \/ /\ Contains(img_src, <<"baidu", ".", "com">>)
       /\ \/ Contains(img_src, <<"imgsrc", ".", "baidu", ".", "com">>)
          \/ Contains(img_src, <<"hiphotos", ".", "baidu", ".", "com">>)
          \/ Contains(img_src, <<"tiebapic", ".", "baidu", ".", "com">>)
    \/ "BDE_Image" \in class

\* ------------------------------------------------------------------------
\* Content nodes
\* ------------------------------------------------------------------------

\* forum nodes carry no 'order' key
TiebaText(content, tag) == [type |-> "text", content |-> content, tag |-> tag]

TiebaImage(src, alt) == [type |-> "image", src |-> src, alt |-> alt]

WeChatText(content, tag, order) ==
    [type |-> "text", content |-> content, tag |-> tag, order |-> order]

\* the order key written as a constant instead of the running length
WeChatImage_OrderZero(src, alt, order) ==
    [type |-> "image", src |-> src, alt |-> alt, order |-> 0]

WeChatImage(src, alt, order) ==
    [type |-> "image", src |-> src, alt |-> alt, order |-> order]

\* any(el['type'] == 'image' and el['src'] == img_src for el in content_elements)
img_already_added(content_elements, img_src) ==
    \E i \in 1..Len(content_elements) :
        content_elements[i].type = "image" /\ content_elements[i].src = img_src

\* ------------------------------------------------------------------------
\* Forum family: TiebaPostScraperAPI.extract_post_content
\* ------------------------------------------------------------------------

TagAtoms == {"<tag>", "</tag>", "<img/>", "<br/>"}

BrMarker == "|||BR|||"

\* re.sub(r'<br[^>]*>', '|||BR|||', content_html)
MarkBreaks(html) ==
    [i \in 1..Len(html) |-> IF html[i] = "<br/>" THEN BrMarker ELSE html[i]]

\* re.sub(r'<[^>]+>', '', text_content)
StripTags(html) == SelectSeq(html, LAMBDA a : a \notin TagAtoms)

\* text_parts: the tag-free text between explicit line breaks
text_parts(content_elem) ==
    Split(StripTags(MarkBreaks(Serialize(content_elem))), <<BrMarker>>)

\* the shared "valid, then clean, then not yet seen" emission of a text node;
\* st is [content_elements, processed_texts, img_index]
EmitText(st, text, tag) ==
    IF is_valid_text_content(text, st.processed_texts)
    THEN LET clean_text == clean_text_content(text)
         IN  IF Truthy(clean_text) /\ clean_text.text \notin st.processed_texts
             THEN [st EXCEPT
                      !.content_elements = Append(@, TiebaText(clean_text.text, tag)),
                      !.processed_texts = @ \cup {clean_text.text}]
             ELSE st
    ELSE st

\* the forum image branch: resolve, check eligibility, de-duplicate;
\* the result says whether an image node was appended
EmitImage(st, img) ==
    LET raw == TiebaImgSrc(img)
        img_src == ResolveUrl(raw, TiebaOrigin)
    IN  IF /\ raw # <<>>
           /\ IsTiebaContentImage(img_src, img.class)
           /\ ~img_already_added(st.content_elements, img_src)
        THEN [st EXCEPT !.content_elements = Append(@, TiebaImage(img_src, img.alt))]
        ELSE st

\* one iteration of "for part in text_parts": the text, then at most one
\* image; img_index advances only when an image node was appended
PartStep(st, part, img_elements) ==
    LET p == Strip(part)
        s1 == IF p # <<>> THEN EmitText(st, p, "text") ELSE st
    IN  IF s1.img_index < Len(img_elements)
        THEN LET s2 == EmitImage(s1, img_elements[s1.img_index + 1])
             IN  IF Len(s2.content_elements) > Len(s1.content_elements)
                 THEN [s2 EXCEPT !.img_index = @ + 1]
                 ELSE s2
        ELSE s1

RECURSIVE WalkParts(_, _, _, _)
WalkParts(st, parts, k, img_elements) ==
    IF k > Len(parts) THEN st
    ELSE CHOOSE out \in {WalkParts(s, parts, k + 1, img_elements) :
                            s \in {PartStep(st, parts[k], img_elements)}} : TRUE

\* the walk without its closing loop over the remaining images
FlushImages_None(st, img_elements) == st

\* "while img_index < len(img_elements)": the remaining images
RECURSIVE FlushImages(_, _)
FlushImages(st, img_elements) ==
    IF st.img_index >= Len(img_elements) THEN st
    ELSE CHOOSE out \in
             {FlushImages(s, img_elements) :
                 s \in {[EmitImage(st, img_elements[st.img_index + 1]) EXCEPT
                            !.img_index = st.img_index + 1]}} : TRUE

EmptyWalk == [content_elements |-> <<>>, processed_texts |-> {}, img_index |-> 0]

\* lines 586-679: the break-segmented walk
break_segmented_walk(content_elem) ==
    LET img_elements == find_all_named(content_elem, {"img"})
    IN  CHOOSE out \in
            {FlushImages(s, img_elements) :
                s \in {WalkParts(EmptyWalk, text_parts(content_elem), 1,
                                 img_elements)}} : TRUE

\* one element of the element walk (lines 687-745)
ElementStep(st, elem) ==
    IF elem.tag = "img" THEN EmitImage(st, elem)
    ELSE IF elem.tag \in {"p", "div", "span"}
    THEN IF has_descendant(elem, {"img"}) THEN st
         ELSE EmitText(st, get_text_strip(elem), elem.tag)
    ELSE st

RECURSIVE WalkElements(_, _, _)
WalkElements(st, elems, k) ==
    IF k > Len(elems) THEN st
    ELSE CHOOSE out \in {WalkElements(s, elems, k + 1) :
                            s \in {ElementStep(st, elems[k])}} : TRUE

\* lines 682-745: the element walk
element_walk(content_elem, st) ==
    LET found == find_all_named(content_elem, {"p", "div", "span", "img", "br"})
        all_elements == IF found = <<>> THEN <<content_elem>> ELSE found
    IN  WalkElements(st, all_elements, 1)

\* ------------------------------------------------------------------------
\* Forum family: TiebaPostScraperAPI._fallback_content_extraction
\* ------------------------------------------------------------------------

SentenceDelimiters == << <<"o.">>, <<"f!">>, <<"f?">>, <<"LF", "LF">>, <<"CR", "LF">> >>

TerminalMarks == { <<"o.">>, <<"f!">>, <<"f?">>, <<".">>, <<"!">>, <<"?">> }

MinDirectTextLen == 20

MinSentenceLen == 5

\* the split on the first delimiter, in list order, that occurs in the text
split_sentences(direct_text) ==
    LET present == {k \in 1..Len(SentenceDelimiters) :
                        Contains(direct_text, SentenceDelimiters[k])}
    IN  IF present = {} THEN <<direct_text>>
        ELSE Split(direct_text,
                   SentenceDelimiters[CHOOSE k \in present : \A j \in present : k <= j])

\* a sentence emitted as it stands, without the length and validity tests
SentenceStep_Unfiltered(st, raw) == [st EXCEPT !.content_elements = Append(@, TiebaText(Strip(raw) \o <<"o.">>, "p"))]

SentenceStep(st, raw) ==
    LET sentence == Strip(raw)
    IN  IF sentence # <<>> /\ Len(sentence) > MinSentenceLen
        THEN EmitText(st,
                      IF \E m \in TerminalMarks : EndsWith(sentence, m)
                      THEN sentence ELSE sentence \o <<"o.">>,
                      "p")
        ELSE st

RECURSIVE WalkSentences(_, _, _)
WalkSentences(st, sentences, k) ==
    IF k > Len(sentences) THEN st
    ELSE CHOOSE out \in {WalkSentences(s, sentences, k + 1) :
                            s \in {SentenceStep(st, sentences[k])}} : TRUE

\* method 1 (lines 762-794); content_elements starts empty, processed_texts
\* is the caller's set
sentence_split(content_elem, processed_texts) ==
    LET direct_text == get_text_sep_strip(content_elem)
        st == [EmptyWalk EXCEPT !.processed_texts = processed_texts]
    IN  IF direct_text # <<>> /\ Len(direct_text) > MinDirectTextLen
        THEN WalkSentences(st, split_sentences(direct_text), 1)
        ELSE st

UpperCase == <<"A", "B", "C", "D", "E", "F", "G", "H", "I", "J", "K", "L", "M",
               "N", "O", "P", "Q", "R", "S", "T", "U", "V", "W", "X", "Y", "Z">>

LowerCase == <<"a", "b", "c", "d", "e", "f", "g", "h", "i", "j", "k", "l", "m",
               "n", "o", "p", "q", "r", "s", "t", "u", "v", "w", "x", "y", "z">>

\* text.lower()
Lower(text) ==
    [i \in 1..Len(text) |->
        IF \E k \in 1..26 : UpperCase[k] = text[i]
        THEN LowerCase[CHOOSE k \in 1..26 : UpperCase[k] = text[i]]
        ELSE text[i]]

skip_patterns ==
    { <<"s", "c", "r", "i", "p", "t">>, <<"s", "t", "y", "l", "e">>,
      <<"n", "o", "s", "c", "r", "i", "p", "t">> }

MinLiberalLen == 3

LiberalStep(st, raw) ==
    LET text == Strip(raw)
        clean_text == clean_text_content(text)
    IN  IF /\ text # <<>> /\ Len(text) > MinLiberalLen
           /\ ~\E pat \in skip_patterns : Contains(Lower(text), pat)
           /\ Truthy(clean_text)
           /\ clean_text.text \notin st.processed_texts
           /\ Len(clean_text.text) > MinLiberalLen
        THEN [st EXCEPT
                 !.content_elements = Append(@, TiebaText(clean_text.text, "text")),
                 !.processed_texts = @ \cup {clean_text.text}]
        ELSE st

RECURSIVE WalkStrings(_, _, _)
WalkStrings(st, strs, k) ==
    IF k > Len(strs) THEN st
    ELSE CHOOSE out \in {WalkStrings(s, strs, k + 1) :
                            s \in {LiberalStep(st, strs[k])}} : TRUE

\* method 2 (lines 796-821): every NavigableString, minimal filter
liberal_text_walk(content_elem, st) == WalkStrings(st, strings_of(content_elem), 1)

\* ------------------------------------------------------------------------
\* Article family: WeChatArticleScraperAPI.parse_html_content (lines 1218-1287)
\* ------------------------------------------------------------------------

ArticleTextTags == {"p", "div", "section", "span", "h1", "h2", "h3", "h4", "h5", "h6"}

ReadOriginal == <<"yue", "du2", "yuan", "wen">>

ClickToView == <<"dian", "ji1", "cha", "kan">>

MinArticleTextLen == 10

\* the containment test left out
is_substring_of_existing_Never(text, processed_texts) == FALSE

\* any(text in e or e in text for e in processed_texts if len(e) > len(text))
is_substring_of_existing(text, processed_texts) ==
    \E e \in processed_texts :
        Len(e) > Len(text) /\ (Contains(e, text) \/ Contains(text, e))

\* the image branch of the article HTML walk: de-duplicated by resolved URL
ArticleImageStep(st, element) ==
    LET raw == WeChatImgSrc(element)
        img_src == ResolveUrl(raw, WeChatOrigin)
    IN  IF raw # <<>> /\ ~img_already_added(st.content_elements, img_src)
        THEN [st EXCEPT !.content_elements =
                 Append(@, WeChatImage(img_src, element.alt, Len(st.content_elements)))]
        ELSE st

\* the text branch of the article HTML walk
ArticleTextStep(st, element) ==
    LET text == Strip(get_text(element))
    IN  IF \/ (has_descendant(element, BlockTags) /\ element.tag \in {"div", "section"})
           \/ has_descendant(element, {"img"})
        THEN st
        ELSE IF /\ text # <<>>
                /\ Len(text) > MinArticleTextLen
                /\ text \notin st.processed_texts
                /\ ~StartsWith(text, <<"h", "t", "t", "p">>)
                /\ ~Contains(text, ReadOriginal)
                /\ ~Contains(text, ClickToView)
                /\ ~is_substring_of_existing(text, st.processed_texts)
        THEN [st EXCEPT
                 !.content_elements =
                     Append(@, WeChatText(text, element.tag, Len(st.content_elements))),
                 !.processed_texts = @ \cup {text}]
        ELSE st

ArticleStep(st, element) ==
    IF element.tag = "img" THEN ArticleImageStep(st, element)
    ELSE IF element.tag \in ArticleTextTags THEN ArticleTextStep(st, element)
    ELSE st

RECURSIVE WalkArticle(_, _, _)
WalkArticle(st, elems, k) ==
    IF k > Len(elems) THEN st
    ELSE CHOOSE out \in {WalkArticle(s, elems, k + 1) :
                            s \in {ArticleStep(st, elems[k])}} : TRUE

\* content_elements.sort(key=lambda x: x['order']): a stable insertion sort
RECURSIVE SortByOrder(_)
SortByOrder(elems) ==
    IF Len(elems) <= 1 THEN elems
    ELSE CHOOSE out \in
             {LET x == elems[Len(elems)]
                  before == {i \in 1..Len(rest) : rest[i].order <= x.order}
                  cut == IF before = {} THEN 0 ELSE Greatest(before)
              IN  SubSeq(rest, 1, cut) \o <<x>> \o SubSeq(rest, cut + 1, Len(rest)) :
                 rest \in {SortByOrder(SubSeq(elems, 1, Len(elems) - 1))}} : TRUE

\* the walk over content_elem.find_all(recursive=True), then the sort
article_html_walk(content_elem) ==
    [WalkArticle(EmptyWalk, find_all(content_elem), 1) EXCEPT
        !.content_elements = SortByOrder(@)]

\* ------------------------------------------------------------------------
\* Article family: extract_article_content_from_page (lines 1426-1484)
\* ------------------------------------------------------------------------

\* "{selector} p, {selector} div": every paragraph, kept when long enough;
\* no seen-set
RECURSIVE WalkParagraphs(_, _, _)
WalkParagraphs(content_elements, paragraphs, k) ==
    IF k > Len(paragraphs) THEN content_elements
    ELSE CHOOSE out \in
             {WalkParagraphs(
                  IF /\ text # <<>> /\ Len(text) > MinArticleTextLen
                     /\ ~Contains(text, ReadOriginal)
                  THEN Append(ce, WeChatText(text, "p", Len(ce)))
                  ELSE ce,
                  paragraphs, k + 1) :
                 ce \in {content_elements},
                 text \in {Strip(inner_text(paragraphs[k]))}} : TRUE

\* "{selector} img": every image with a source, after the paragraphs
RECURSIVE WalkPageImages(_, _, _)
WalkPageImages(content_elements, img_elements, k) ==
    IF k > Len(img_elements) THEN content_elements
    ELSE CHOOSE out \in
             {WalkPageImages(
                  IF raw # <<>>
                  THEN Append(ce, WeChatImage(ResolveUrl(raw, WeChatOrigin),
                                              img_elements[k].alt, Len(ce)))
                  ELSE ce,
                  img_elements, k + 1) :
                 ce \in {content_elements},
                 raw \in {WeChatImgSrc(img_elements[k])}} : TRUE

\* the paragraphs, then the images, of the first content root that yields
\* anything, then the sort
article_page_walk(content_elem) ==
    CHOOSE out \in
        {[EmptyWalk EXCEPT !.content_elements =
             SortByOrder(WalkPageImages(texts,
                                        find_all_named(content_elem, {"img"}), 1))] :
            texts \in {WalkParagraphs(<<>>,
                                      find_all_named(content_elem, {"p", "div"}),
                                      1)}} : TRUE

\* ------------------------------------------------------------------------
\* Document Renderer
\* ------------------------------------------------------------------------

DigitAtoms == <<"0", "1", "2", "3", "4", "5", "6", "7", "8", "9">>

\* str(n) for n >= 0
RECURSIVE IntToStr(_)
IntToStr(n) ==
    IF n < 10 THEN <<DigitAtoms[n + 1]>>
    ELSE IntToStr(n \div 10) \o <<DigitAtoms[(n % 10) + 1]>>

\* f"{n:03d}"
Pad3(n) ==
    LET d == IntToStr(n)
    IN  IF Len(d) >= 3 THEN d
        ELSE [i \in 1..(3 - Len(d)) |-> "0"] \o d

DefaultTitle == <<"wei4", "zhao", "dao", "biao", "ti">>

DefaultForum == <<"wei4", "zhi1", "tie", "ba">>

DefaultAuthor == <<"wei4", "zhi1", "zuo", "zhe">>

PictureLabel == <<"tu", "pian">>

\* f"![{label}{img_counter}]({url})"
ImageReference(label, img_counter, url) ==
    <<"!", "[">> \o label \o IntToStr(img_counter) \o <<"]", "(">> \o url \o <<")">>

\* the element loop of generate_main_markdown (lines 893-899)
RECURSIVE RenderForumElements(_, _, _, _)
RenderForumElements(elems, k, img_counter, label) ==
    IF k > Len(elems) THEN <<>>
    ELSE IF elems[k].type = "text"
    THEN elems[k].content \o <<"LF", "LF">>
             \o RenderForumElements(elems, k + 1, img_counter, label)
    ELSE IF elems[k].type = "image"
    THEN ImageReference(label, img_counter, elems[k].src) \o <<"LF", "LF">>
             \o RenderForumElements(elems, k + 1, img_counter + 1, label)
    ELSE RenderForumElements(elems, k + 1, img_counter, label)

\* generate_main_markdown(post_info, main_post); the "else" branch renders
\* main_post['content'] and main_post['images'], both empty when
\* content_elements is
generate_main_markdown(title, forum_name, author, content_elements) ==
    <<"#", " ">> \o title \o <<"LF", "LF">>
        \o <<"*", "*", "tie", "ba", "*", "*", ":", " ">> \o forum_name \o <<"ba", "LF">>
        \o <<"*", "*", "zuo", "zhe", "*", "*", ":", " ">> \o author \o <<"LF", "LF">>
        \o <<"-", "-", "-", "LF", "LF">>
        \o RenderForumElements(content_elements, 1, 1, PictureLabel)

\* one reply of generate_comments_markdown (lines 922-942)
RenderReply(reply) ==
    <<"#", "#", " ">> \o IntToStr(reply.floor) \o <<"lou", " ", "-", " ">>
        \o reply.author \o <<"LF", "LF">>
        \o RenderForumElements(reply.content_elements, 1, 1,
                               IntToStr(reply.floor) \o <<"lou">> \o PictureLabel)
        \o <<"-", "-", "-", "LF", "LF">>

RECURSIVE RenderReplies(_, _)
RenderReplies(replies, k) ==
    IF k > Len(replies) THEN <<>>
    ELSE RenderReply(replies[k]) \o RenderReplies(replies, k + 1)

\* generate_comments_markdown(post_info, replies)
generate_comments_markdown(title, url, replies) ==
    IF replies = <<>> THEN <<>>
    ELSE <<"#", " ">> \o title \o <<" ", "-", " ", "ping", "lun", "qu", "LF", "LF">>
             \o <<"*", "*", "yuan", "tie", "lian", "jie", "*", "*", ":", " ">>
             \o url \o <<"LF", "LF">>
             \o <<"-", "-", "-", "LF", "LF">>
             \o RenderReplies(replies, 1)

\* str.replace(old, new): every non-overlapping occurrence, left to right
RECURSIVE ReplaceFrom(_, _, _, _)
ReplaceFrom(s, old, new, i) ==
    LET hits == {j \in i..Len(s) : MatchAt(s, old, j)}
    IN  IF hits = {} THEN SubSeq(s, i, Len(s))
        ELSE SubSeq(s, i, Least(hits) - 1) \o new
                 \o ReplaceFrom(s, old, new, Least(hits) + Len(old))

\* image_url_map.get(src, src): the last downloaded entry for src wins
MappedUrl(downloaded_images, src) ==
    LET hits == {i \in 1..Len(downloaded_images) :
                    downloaded_images[i].original_url = src}
    IN  IF hits = {} THEN src
        ELSE downloaded_images[CHOOSE i \in hits : \A j \in hits : j <= i].image_url

\* url_map.items(): the original URLs in first-insertion order, each with the
\* image_url of its last entry
url_map_items(downloaded_images) ==
    LET firsts == {i \in 1..Len(downloaded_images) :
                      \A j \in 1..(i - 1) :
                          downloaded_images[j].original_url
                              # downloaded_images[i].original_url}
        keys == SelectSeq([i \in 1..Len(downloaded_images) |->
                              IF i \in firsts THEN downloaded_images[i].original_url
                              ELSE <<>>],
                          LAMBDA u : u # <<>>)
    IN  [i \in 1..Len(keys) |->
            [original_url |-> keys[i],
             image_url |-> MappedUrl(downloaded_images, keys[i])]]

RECURSIVE ReplaceLinks(_, _, _)
ReplaceLinks(markdown_content, items, k) ==
    IF k > Len(items) THEN markdown_content
    ELSE ReplaceLinks(
             ReplaceFrom(markdown_content,
                         <<"]", "(">> \o items[k].original_url \o <<")">>,
                         <<"]", "(">> \o items[k].image_url \o <<")">>, 1),
             items, k + 1)

\* the links left as they were rendered
update_markdown_with_local_images_Unchanged(markdown_content, downloaded_images) ==
    markdown_content

\* update_markdown_with_local_images(markdown_content, downloaded_images, post_id)
update_markdown_with_local_images(markdown_content, downloaded_images) ==
    IF downloaded_images = <<>> THEN markdown_content
    ELSE ReplaceLinks(markdown_content, url_map_items(downloaded_images), 1)

HeadingTags == {"h1", "h2", "h3", "h4", "h5", "h6"}

\* int(element['tag'][1])
HeadingLevel(tag) ==
    CASE tag = "h1" -> 1 [] tag = "h2" -> 2 [] tag = "h3" -> 3
      [] tag = "h4" -> 4 [] tag = "h5" -> 5 [] tag = "h6" -> 6

\* the element loop of generate_markdown (lines 1535-1551)
RECURSIVE RenderArticleElements(_, _, _, _)
RenderArticleElements(elems, k, img_counter, downloaded_images) ==
    IF k > Len(elems) THEN <<>>
    ELSE IF elems[k].type = "text"
    THEN (IF elems[k].tag \in HeadingTags
          THEN [i \in 1..(HeadingLevel(elems[k].tag) + 1) |-> "#"] \o <<" ">>
          ELSE <<>>)
             \o elems[k].content \o <<"LF", "LF">>
             \o RenderArticleElements(elems, k + 1, img_counter, downloaded_images)
    ELSE IF elems[k].type = "image"
    THEN ImageReference(PictureLabel, img_counter,
                        MappedUrl(downloaded_images, elems[k].src)) \o <<"LF">>
             \o (IF elems[k].alt # <<>> THEN <<"*">> \o elems[k].alt \o <<"*", "LF">>
                 ELSE <<>>)
             \o <<"LF">>
             \o RenderArticleElements(elems, k + 1, img_counter + 1, downloaded_images)
    ELSE RenderArticleElements(elems, k + 1, img_counter, downloaded_images)

\* generate_markdown(article_data, downloaded_images)
generate_markdown(title, content_elements, downloaded_images) ==
    <<"#", " ">> \o title \o <<"LF", "LF">>
        \o RenderArticleElements(content_elements, 1, 1, downloaded_images)

\* ------------------------------------------------------------------------
\* Image Pipeline: download_images (lines 178-248 and 1083-1154)
\* ------------------------------------------------------------------------

\* the extension chosen from substrings of the lower-cased URL
FileExtension(img_url) ==
    LET u == Lower(img_url)
    IN  IF Contains(u, <<"jpeg">>) \/ Contains(u, <<"jpg">>) THEN <<".", "jpg">>
        ELSE IF Contains(u, <<"png">>) THEN <<".", "png">>
        ELSE IF Contains(u, <<"gif">>) THEN <<".", "gif">>
        ELSE IF Contains(u, <<"webp">>) THEN <<".", "webp">>
        ELSE <<".", "jpg">>

\* the number left out of the name
ImageFilename_Unnumbered(i, img_url) == <<"image_">> \o Pad3(1) \o FileExtension(img_url)

\* f"image_{i:03d}{ext}": i is the position in the input list
ImageFilename(i, img_url) == <<"image_">> \o Pad3(i) \o FileExtension(img_url)

\* what the environment does to one image of the batch: "exception" is
\* anything raised inside the loop's try (urlopen failing or timing out, the
\* file write failing), "status" a response other than 200, "stored" the file
\* written, "inpainted" the file written and one the OpenCV steps would succeed on
FetchOutcomes == {"exception", "status", "stored", "inpainted"}

Stored == {"stored", "inpainted"}

\* the capability check and the constructor's conjunction left out
watermark_removed_Unguarded(remove_watermarks, has_cv2, outcome) ==
    remove_watermarks /\ outcome = "inpainted"

\* self.remove_watermarks = remove_watermarks and HAS_CV2 (line 65), the call
\* guarded by it (223-226), and remove_watermark's own "if not HAS_CV2: return
\* False" (143-145); its try/except turns every OpenCV failure into False
watermark_removed(remove_watermarks, has_cv2, outcome) ==
    IF remove_watermarks /\ has_cv2
    THEN (IF ~has_cv2 THEN FALSE ELSE outcome = "inpainted")
    ELSE FALSE

\* the loop leaves at the first image that fails
RECURSIVE DownloadFrom_AbortOnFailure(_, _, _, _, _, _, _)
DownloadFrom_AbortOnFailure(images, i, fetched, route, container_id, remove_watermarks, has_cv2) ==
    IF i > Len(images) THEN <<>>
    ELSE IF images[i].src # <<>> /\ fetched[i] \notin Stored THEN <<>>
    ELSE (IF images[i].src # <<>>
          THEN << [original_url |-> images[i].src,
                   filename |-> ImageFilename(i, images[i].src),
                   image_url |-> <<"/", route, "/", "images", "/">> \o container_id
                                     \o <<"/">> \o ImageFilename(i, images[i].src),
                   alt |-> images[i].alt,
                   watermark_removed |->
                       watermark_removed(remove_watermarks, has_cv2, fetched[i])] >>
          ELSE <<>>)
             \o DownloadFrom_AbortOnFailure(images, i + 1, fetched, route, container_id,
                                            remove_watermarks, has_cv2)

\* the download loop from its i-th iteration on; fetched[i] is the outcome of
\* the i-th request. An image without src is passed over, a failed one is
\* logged and passed over, a stored one is appended
RECURSIVE DownloadFrom(_, _, _, _, _, _, _)
DownloadFrom(images, i, fetched, route, container_id, remove_watermarks, has_cv2) ==
    IF i > Len(images) THEN <<>>
    ELSE (IF images[i].src # <<>> /\ fetched[i] \in Stored
          THEN << [original_url |-> images[i].src,
                   filename |-> ImageFilename(i, images[i].src),
                   image_url |-> <<"/", route, "/", "images", "/">> \o container_id
                                     \o <<"/">> \o ImageFilename(i, images[i].src),
                   alt |-> images[i].alt,
                   watermark_removed |->
                       watermark_removed(remove_watermarks, has_cv2, fetched[i])] >>
          ELSE <<>>)
             \o DownloadFrom(images, i + 1, fetched, route, container_id,
                             remove_watermarks, has_cv2)

\* the status test left out: every response is written and recorded
download_images_Unchecked(images, fetched, route, container_id, remove_watermarks, has_cv2) == DownloadFrom(images, 1, [i \in DOMAIN fetched |-> "stored"], route, container_id, remove_watermarks, has_cv2)

download_images(images, fetched, route, container_id, remove_watermarks, has_cv2) ==
    DownloadFrom(images, 1, fetched, route, container_id, remove_watermarks, has_cv2)

\* ------------------------------------------------------------------------
\* Forum family: one post, and the thread
\* ------------------------------------------------------------------------

\* the guard left out: a later strategy runs whatever the earlier ones found
needs_fallback_Always(content_elements) == TRUE

\* the guard inverted into "never": no later strategy runs
needs_fallback_Never(content_elements) == FALSE

\* "if not content_elements": the guard before each later strategy
needs_fallback(content_elements) == content_elements = <<>>

ImagesOf(content_elements) == SelectSeq(content_elements, LAMBDA e : e.type = "image")

TextsOf(content_elements) == SelectSeq(content_elements, LAMBDA e : e.type = "text")

\* extract_post_content(post_elem): the whole cascade on one post
AfterElementWalk(content_elem, a) ==
    IF needs_fallback(a.content_elements) THEN element_walk(content_elem, a) ELSE a

AfterSentenceSplit(content_elem, b) ==
    IF needs_fallback(b.content_elements)
    THEN sentence_split(content_elem, b.processed_texts) ELSE b

AfterLiberalWalk(content_elem, c) ==
    IF needs_fallback(c.content_elements)
    THEN liberal_text_walk(content_elem, c) ELSE c

extract_post_content(content_elem) ==
    CHOOSE out \in
        {(CHOOSE d \in
             {(CHOOSE c \in {AfterLiberalWalk(content_elem, bb) :
                                bb \in {AfterSentenceSplit(content_elem, b)}} : TRUE) :
                 b \in {AfterElementWalk(content_elem, a)}} : TRUE).content_elements :
            a \in {break_segmented_walk(content_elem)}} : TRUE

DefaultReplyAuthor == <<"wei4", "zhi1", "yong", "hu">>

MaxReplies == 10

\* extract_replies: the first ten reply elements, each through the cascade;
\* a reply with neither text nor image is dropped
RECURSIVE RepliesFrom(_, _)
RepliesFrom(reply_elems, i) ==
    IF i > Min(Len(reply_elems), MaxReplies) THEN <<>>
    ELSE (CHOOSE out \in
              {IF ce # <<>>
               THEN << [floor |-> i + 1, author |-> DefaultReplyAuthor,
                        content_elements |-> ce] >>
               ELSE <<>> :
                  ce \in {extract_post_content(reply_elems[i])}} : TRUE)
             \o RepliesFrom(reply_elems, i + 1)

extract_replies(reply_elems) == RepliesFrom(reply_elems, 1)

\* all_images: the main post's images, then each reply's (lines 352-359)
RECURSIVE ReplyImages(_, _)
ReplyImages(replies, k) ==
    IF k > Len(replies) THEN <<>>
    ELSE ImagesOf(replies[k].content_elements) \o ReplyImages(replies, k + 1)

collect_all_images(main_elements, replies) ==
    ImagesOf(main_elements) \o ReplyImages(replies, 1)

\* ------------------------------------------------------------------------
\* Inputs: documents and requests
\* ------------------------------------------------------------------------

Hello == <<"H", "e", "l", "l", "o">>

World == <<"W", "o", "r", "l", "d">>

\* eleven characters: longer than the article minimum
LongText == <<"a", "b", "c", "d", "e", "f", "g", "h", "i", "j", "k">>

\* a blacklisted UI phrase (filter_patterns[2])
CollapseReplies == <<"shou", "qi3", "hui", "fu">>

\* plain text with a sentence delimiter, more than twenty characters
PlainSentences ==
    <<"a", "b", "c", "d", "e", "f", "g", "h", "i", "j", "k", "o.",
      "l", "m", "n", "o", "p", "q", "r", "s", "t", "u", "v">>

\* the same with a blacklisted phrase in its first sentence
NoisySentences ==
    <<"bai", "du", "c", "d", "e", "f", "g", "h", "i", "j", "k", "o.",
      "l", "m", "n", "o", "p", "q", "r", "s", "t", "u", "v">>

\* a short exclamation with a blacklisted phrase: six characters
ShortNoisy == <<"bai", "du", "h", "a", "o", "!">>

\* text that reads as an image reference in the output format
ReferenceLikeText == <<"!", "[", "x", "]", "(", "y", ")">>

ImgHosted ==
    ImgElement(<<"https:", "/", "/", "imgsrc", ".", "baidu", ".", "com", "/", "a", ".", "jpg">>,
               <<>>, {}, <<>>)

ImgRootRelative ==
    ImgElement(<<"/", "img", "/", "a", ".", "jpg">>, <<>>, {"BDE_Image"}, <<>>)

ImgProtocolRelative ==
    ImgElement(<<"/", "/", "cdn", ".", "example", ".", "com", "/", "a", ".", "jpg">>,
               <<>>, {"BDE_Image"}, <<>>)

ImgPlain == ImgElement(<<"/", "i", "/", "1", ".", "jpg">>, <<>>, {}, <<>>)

\* the children a generated content root is built from
Items ==
    { TextNode(Hello), BrElement, ImgHosted, ImgRootRelative, ImgPlain,
      Element("p", <<TextNode(LongText)>>),
      Element("div", <<Element("p", <<TextNode(LongText)>>)>>),
      TextNode(CollapseReplies) }

MaxKids == 2

GeneratedDocs ==
    UNION { {Element("div", kids) : kids \in [1..n -> Items]} : n \in 1..MaxKids }

\* <div class="content"><p>Hello</p><img src="/i/1.jpg"><p>World</p></div>
HelloWorldDoc ==
    Element("div", << Element("p", <<TextNode(Hello)>>), ImgPlain,
                      Element("p", <<TextNode(World)>>) >>)

RelativeUrlDoc == Element("div", <<ImgProtocolRelative, ImgRootRelative>>)

\* Hello<br><img src="/i/1.jpg">World<img src="https://imgsrc.baidu.com/a.jpg">
InterleaveDoc ==
    Element("div", <<TextNode(Hello), BrElement, ImgPlain, TextNode(World), ImgHosted>>)

\* a blacklisted first sentence, then a sentence that opens with an escaped
\* space and a mention marker and holds a delimiter of lower priority
EscapedMention ==
    <<"bai", "du", "c", "d", "e", "f", "g", "h", "i", "j", "k", "o.",
      "&", "#", "3", "2", ";", "@", "b", "o", "b", "f!", "x", "y", "z">>

\* <p>xy<span>abcdefghijk</span></p><p>abcdefghijk。lmnopqrstuv<img src="/i/1.jpg"></p>
NestedDoc ==
    Element("div", << Element("p", <<TextNode(<<"x", "y">>),
                                     Element("span", <<TextNode(LongText)>>)>>),
                      Element("p", <<TextNode(PlainSentences), ImgPlain>>) >>)

ScenarioDocs ==
    { HelloWorldDoc, RelativeUrlDoc, InterleaveDoc, NestedDoc,
      Element("div", <<TextNode(EscapedMention)>>),
      Element("div", <<TextNode(PlainSentences)>>),
      Element("div", <<TextNode(NoisySentences)>>),
      Element("div", <<TextNode(ShortNoisy)>>),
      Element("div", <<TextNode(Hello), BrElement, TextNode(Hello)>>),
      Element("div", <<TextNode(ReferenceLikeText), BrElement, ImgHosted>>) }

TiebaUrl == <<"https:", "/", "/", "tieba", ".", "baidu", ".", "com", "/", "p", "/", "1">>

WeChatUrl == <<"https:", "/", "/", "mp", ".", "weixin", ".", "qq", ".", "com", "/", "s", "/", "1">>

XUrl == <<"https:", "/", "/", "x", ".", "com", "/", "p">>

SiteExampleUrl == <<"https:", "/", "/", "site", ".", "example", ".", "com", "/", "page">>

\* the page address handed to parse_html_content with a document
UrlsFor(doc, home) ==
    IF doc = HelloWorldDoc THEN {home, XUrl}
    ELSE IF doc = RelativeUrlDoc THEN {home, SiteExampleUrl}
    ELSE {home}

\* reply posts of a thread: none, or one reply repeating the hosted image
ReplyLists == { <<>>, <<Element("div", <<ImgHosted, TextNode(Hello)>>)>> }

RepliesFor(doc) == IF Len(doc.kids) = 1 THEN ReplyLists ELSE {<<>>}

ContainerId == <<"post_1_20240101_000000">>

\* the result of the core entry point: which function the route's helper
\* called, and whether it is still running, returned a dict tagged success,
\* returned one tagged failure (always with 'error': str(e)), or raised
Result(entry, outcome) ==
    [entry |-> entry, outcome |-> outcome,
     error |-> IF outcome = "failure" THEN "str(e)" ELSE ""]

NoResponse == [status |-> 0]

\* scrape_tieba, lines 1641-1657: the counts of the response
tieba_response(post_data_total_images, downloaded_images) ==
    [status |-> 200, success |-> TRUE,
     image_count |-> Len(downloaded_images),
     total_images |-> post_data_total_images]

\* scrape_wechat, lines 1751-1766: the counts of the response
wechat_response(content_elements, downloaded_images) ==
    [status |-> 200, success |-> TRUE,
     image_count |-> Len(downloaded_images),
     paragraph_count |-> Len(TextsOf(content_elements)),
     total_elements |-> Len(content_elements)]

\* jsonify(post_data), 500 (lines 1609-1610, 1727-1728) and the routes' outer
\* except (1690-1696, 1797-1803)
failure_response == [status |-> 500, success |-> FALSE, error |-> "str(e)"]

VARIABLES
    HAS_CV2,            \* whether "import cv2" succeeded
    remove_watermarks_arg, \* the flag handed to the scraper's constructor
    pc,                 \* position of the request
    family,             \* "forum" or "article"
    url,                \* post_url / article_url
    doc,                \* the content root
    reply_elems,        \* the reply posts of a forum thread
    content_elements,   \* the ordered nodes
    processed_texts,    \* the seen-set
    ran,                \* the strategies run so far, each with the nodes it produced
    result,             \* what the core entry point handed back
    replies,            \* the extracted replies
    all_images,         \* all_images / article_data['images']
    outcomes,           \* what happened to each image download_images was given
    downloaded_images,  \* the assets returned by download_images
    markdown,           \* main_markdown / markdown_content
    comments_markdown,
    response,           \* the JSON body and status the route answers with
    clock,              \* datetime.now(), in whole seconds
    requests,           \* the route invocations in flight on the threaded server
    files,              \* the paths written below static/, each with its writer
    overlap,            \* whether two invocations have been in flight together
    page_head,          \* the elements of a page that the metadata selectors look at
    post_info,          \* the metadata read from them
    browser_calls,      \* the invocations of scrape_with_browser by the scraper call under way
    disk                \* the directories and expired files below static/, and what sweeps did

vars == <<HAS_CV2, remove_watermarks_arg, pc, family, url, doc, reply_elems,
          content_elements, processed_texts, ran, result, replies, all_images,
          outcomes, downloaded_images, markdown, comments_markdown, response,
          clock, requests, files, overlap, page_head, post_info,
          browser_calls, disk>>

\* the page header and the metadata read from it
meta == <<page_head, post_info, browser_calls>>

\* the storage shared by the threads of the server
storage == <<clock, requests, files, overlap, disk>>

\* the two threads of the storage model
Requests == {1, 2}

Waiting == [pc |-> "idle", route |-> "", safe_title |-> "", post_id |-> "", id |-> <<>>]

\* fixed once the module is loaded and the scrapers are constructed
setup == <<HAS_CV2, remove_watermarks_arg>>

Init ==
    /\ HAS_CV2 \in BOOLEAN
    /\ remove_watermarks_arg \in BOOLEAN
    /\ pc = "idle"
    /\ family = "none"
    /\ url = <<>>
    /\ doc = Element("div", <<>>)
    /\ reply_elems = <<>>
    /\ content_elements = <<>>
    /\ processed_texts = {}
    /\ ran = <<>>
    /\ result = Result("none", "pending")
    /\ replies = <<>>
    /\ all_images = <<>>
    /\ outcomes = <<>>
    /\ downloaded_images = <<>>
    /\ markdown = <<>>
    /\ comments_markdown = <<>>
    /\ response = NoResponse
    /\ clock = 0
    /\ requests = [r \in Requests |-> Waiting]
    /\ files = {}
    /\ overlap = FALSE
    /\ page_head = <<>>
    /\ post_info = [family |-> "none"]
    /\ browser_calls = 0
    /\ disk = [dirs |-> {}, expired |-> {"tieba", "wechat"},
               removed |-> [r \in Requests |-> {}], missing |-> {}]

Walked(strategy, before, st) ==
    /\ content_elements' = st.content_elements
    /\ processed_texts' = st.processed_texts
    /\ ran' = Append(ran, [strategy |-> strategy,
                           produced |-> Len(st.content_elements) - Len(before)])

CurrentWalk ==
    [content_elements |-> content_elements, processed_texts |-> processed_texts,
     img_index |-> 0]

\* TiebaPostScraperAPI.parse_html_content is handed a page; anything raised
\* in its body is caught and becomes a result tagged failure (lines 383-390)
TiebaParse ==
    /\ pc = "idle"
    /\ \E d \in GeneratedDocs \cup ScenarioDocs :
         \E u \in UrlsFor(d, TiebaUrl) :
           \E r \in RepliesFor(d) :
             /\ doc' = d
             /\ url' = u
             /\ reply_elems' = r
    /\ family' = "forum"
    /\ \E raised \in BOOLEAN :
         IF raised
         THEN /\ pc' = "failed"
              /\ result' = Result("parse_html_content", "failure")
         ELSE /\ pc' = "break_walk"
              /\ result' = Result("parse_html_content", "pending")
    /\ UNCHANGED <<content_elements, processed_texts, ran, replies, all_images,
                   outcomes, downloaded_images, markdown, comments_markdown,
                   response, setup,
                   storage, meta>>

\* extract_post_content, lines 586-679
BreakSegmentedWalk ==
    /\ pc = "break_walk"
    /\ \E st \in {break_segmented_walk(doc)} :
           /\ Walked("BreakSegmented", <<>>, st)
           /\ pc' = IF needs_fallback(st.content_elements)
                    THEN "element_walk" ELSE "main_post"
    /\ UNCHANGED <<family, url, doc, reply_elems, result, replies, all_images,
                   outcomes, downloaded_images, markdown, comments_markdown,
                   response, setup,
                   storage, meta>>

\* extract_post_content, lines 682-745
ElementWalk ==
    /\ pc = "element_walk"
    /\ \E st \in {element_walk(doc, CurrentWalk)} :
           /\ Walked("ElementWalk", content_elements, st)
           /\ pc' = IF needs_fallback(st.content_elements)
                    THEN "sentence_split" ELSE "main_post"
    /\ UNCHANGED <<family, url, doc, reply_elems, result, replies, all_images,
                   outcomes, downloaded_images, markdown, comments_markdown,
                   response, setup,
                   storage, meta>>

\* _fallback_content_extraction, method 1; its result replaces content_elements
SentenceSplit ==
    /\ pc = "sentence_split"
    /\ \E st \in {sentence_split(doc, processed_texts)} :
           /\ Walked("SentenceSplit", <<>>, st)
           /\ pc' = IF needs_fallback(st.content_elements)
                    THEN "liberal_walk" ELSE "main_post"
    /\ UNCHANGED <<family, url, doc, reply_elems, result, replies, all_images,
                   outcomes, downloaded_images, markdown, comments_markdown,
                   response, setup,
                   storage, meta>>

\* _fallback_content_extraction, method 2
LiberalTextWalk ==
    /\ pc = "liberal_walk"
    /\ \E st \in {liberal_text_walk(doc, CurrentWalk)} :
           Walked("LiberalTextWalk", content_elements, st)
    /\ pc' = "main_post"
    /\ UNCHANGED <<family, url, doc, reply_elems, result, replies, all_images,
                   outcomes, downloaded_images, markdown, comments_markdown,
                   response, setup,
                   storage, meta>>

\* parse_html_content, lines 349-381: replies, all_images, the two renderings,
\* and the result, tagged success whatever was found
TiebaAssemble ==
    /\ pc = "main_post"
    /\ \E rs \in {extract_replies(reply_elems)} :
           /\ replies' = rs
           /\ all_images' = collect_all_images(content_elements, rs)
           /\ markdown' = generate_main_markdown(DefaultTitle, DefaultForum,
                                                 DefaultAuthor, content_elements)
           /\ comments_markdown' = generate_comments_markdown(DefaultTitle, url, rs)
    /\ result' = Result("parse_html_content", "success")
    /\ pc' = "parsed"
    /\ UNCHANGED <<family, url, doc, reply_elems, content_elements, processed_texts,
                   ran, outcomes, downloaded_images, response, setup,
                   storage, meta>>

\* WeChatArticleScraperAPI.parse_html_content is handed a page. Its result is
\* tagged success whatever was found. Anything raised in its body is answered
\* with "return self.scrape_with_browser(article_url)" (lines 1310-1312):
\* the browser is launched outside scrape_with_browser's try, so a launch
\* that fails leaves parse_html_content as an exception; a launched browser
\* hands the page to extract_article_content_from_page, which returns its nodes
\* or, when it raises in turn, a result tagged failure
WeChatParseHtml ==
    /\ pc = "idle"
    /\ family' = "article"
    /\ \E d \in GeneratedDocs \cup ScenarioDocs :
         \E u \in UrlsFor(d, WeChatUrl) :
           /\ doc' = d
           /\ url' = u
           /\ \E path \in {"parsed", "launch_failed", "browser", "browser_failed"} :
              /\ browser_calls' = IF path = "parsed" THEN 0 ELSE 1
              /\ CASE path = "parsed" ->
                       /\ \E st \in {article_html_walk(d)} :
                              /\ Walked("ArticleHtmlWalk", <<>>, st)
                              /\ all_images' = ImagesOf(st.content_elements)
                       /\ result' = Result("parse_html_content", "success")
                       /\ pc' = "parsed"
                  [] path = "launch_failed" ->
                       /\ result' = Result("parse_html_content", "raised")
                       /\ pc' = "raised"
                       /\ UNCHANGED <<content_elements, processed_texts, ran,
                                      all_images>>
                  [] path = "browser" ->
                       /\ \E st \in {article_page_walk(d)} :
                              /\ Walked("ArticlePageWalk", <<>>, st)
                              /\ all_images' = ImagesOf(st.content_elements)
                       /\ result' = Result("parse_html_content", "success")
                       /\ pc' = "parsed"
                  [] path = "browser_failed" ->
                       /\ result' = Result("parse_html_content", "failure")
                       /\ pc' = "failed"
                       /\ UNCHANGED <<content_elements, processed_texts, ran,
                                      all_images>>
    /\ UNCHANGED <<reply_elems, replies, outcomes, downloaded_images, markdown,
                   comments_markdown, response, setup,
                   storage, page_head, post_info>>

\* scrape_wechat_article calls scrape_with_browser itself (lines 1183-1191):
\* the launch may fail, the page goes to extract_article_content_from_page
WeChatExtractFromPage ==
    /\ pc = "idle"
    /\ family' = "article"
    /\ \E d \in GeneratedDocs \cup ScenarioDocs :
         \E u \in UrlsFor(d, WeChatUrl) :
           /\ doc' = d
           /\ url' = u
           /\ browser_calls' = 1
           /\ \E path \in {"launch_failed", "browser", "browser_failed"} :
                CASE path = "launch_failed" ->
                       /\ result' = Result("scrape_with_browser", "raised")
                       /\ pc' = "raised"
                       /\ UNCHANGED <<content_elements, processed_texts, ran,
                                      all_images>>
                  [] path = "browser" ->
                       /\ \E st \in {article_page_walk(d)} :
                              /\ Walked("ArticlePageWalk", <<>>, st)
                              /\ all_images' = ImagesOf(st.content_elements)
                       /\ result' = Result("scrape_with_browser", "success")
                       /\ pc' = "parsed"
                  [] path = "browser_failed" ->
                       /\ result' = Result("scrape_with_browser", "failure")
                       /\ pc' = "failed"
                       /\ UNCHANGED <<content_elements, processed_texts, ran,
                                      all_images>>
    /\ UNCHANGED <<reply_elems, replies, outcomes, downloaded_images, markdown,
                   comments_markdown, response, setup,
                   storage, page_head, post_info>>

\* the call of parse_html_content sits inside the try of scrape_wechat_article
\* (lines 1161-1188): an exception leaving it is caught there and answered
\* with the closing "return self.scrape_with_browser(article_url)" (line 1191)
WeChatRetryBrowser ==
    /\ pc = "raised"
    /\ result.entry = "parse_html_content"
    /\ browser_calls' = browser_calls + 1
    /\ \E path \in {"launch_failed", "browser", "browser_failed"} :
         CASE path = "launch_failed" ->
                /\ result' = Result("scrape_with_browser", "raised")
                /\ pc' = "raised"
                /\ UNCHANGED <<content_elements, processed_texts, ran, all_images>>
           [] path = "browser" ->
                /\ \E st \in {article_page_walk(doc)} :
                       /\ Walked("ArticlePageWalk", <<>>, st)
                       /\ all_images' = ImagesOf(st.content_elements)
                /\ result' = Result("scrape_with_browser", "success")
                /\ pc' = "parsed"
           [] path = "browser_failed" ->
                /\ result' = Result("scrape_with_browser", "failure")
                /\ pc' = "failed"
                /\ UNCHANGED <<content_elements, processed_texts, ran, all_images>>
    /\ UNCHANGED <<family, url, doc, reply_elems, replies, outcomes, downloaded_images,
                   markdown, comments_markdown, response, setup,
                   storage, page_head, post_info>>

\* "if not post_data.get('success'): return jsonify(post_data), 500"
RespondFailure ==
    /\ pc = "failed"
    /\ response' = failure_response
    /\ pc' = "done"
    /\ UNCHANGED <<family, url, doc, reply_elems, content_elements, processed_texts,
                   ran, result, replies, all_images, outcomes, downloaded_images,
                   markdown, comments_markdown, setup,
                   storage, meta>>

\* the route's outer except: an exception of the scraper becomes a 500 answer
RespondException ==
    /\ pc = "raised"
    /\ result.entry = "scrape_with_browser"
    /\ response' = failure_response
    /\ pc' = "done"
    /\ UNCHANGED <<family, url, doc, reply_elems, content_elements, processed_texts,
                   ran, result, replies, all_images, outcomes, downloaded_images,
                   markdown, comments_markdown, setup,
                   storage, meta>>

\* the route's image step: download_images, when asked for and there are images;
\* the scraper call is over
DownloadImages ==
    /\ pc = "parsed"
    /\ \E wanted \in BOOLEAN :
         IF wanted /\ all_images # <<>>
         THEN \E fetched \in [1..Len(all_images) -> FetchOutcomes] :
                /\ outcomes' = fetched
                /\ downloaded_images' =
                    download_images(all_images, fetched,
                                    IF family = "forum" THEN "tieba" ELSE "weixin",
                                    ContainerId, remove_watermarks_arg, HAS_CV2)
         ELSE /\ outcomes' = <<>>
              /\ downloaded_images' = <<>>
    /\ pc' = "downloaded"
    /\ browser_calls' = 0
    /\ UNCHANGED <<family, url, doc, reply_elems, content_elements, processed_texts,
                   ran, result, replies, all_images, markdown, comments_markdown,
                   response, setup,
                   storage, page_head, post_info>>

\* scrape_tieba, lines 1626-1657: the links of both renderings are rewritten
\* and the response is built
TiebaUpdateMarkdown ==
    /\ pc = "downloaded"
    /\ family = "forum"
    /\ markdown' = update_markdown_with_local_images(markdown, downloaded_images)
    /\ comments_markdown' =
           update_markdown_with_local_images(comments_markdown, downloaded_images)
    /\ response' = tieba_response(Len(all_images), downloaded_images)
    /\ pc' = "done"
    /\ UNCHANGED <<family, url, doc, reply_elems, content_elements, processed_texts,
                   ran, result, replies, all_images, outcomes, downloaded_images,
                   setup,
                   storage, meta>>

\* scrape_wechat: generate_markdown(article_data, downloaded_images) and the
\* response (lines 1746-1766)
WeChatGenerateMarkdown ==
    /\ pc = "downloaded"
    /\ family = "article"
    /\ markdown' = generate_markdown(DefaultTitle, content_elements, downloaded_images)
    /\ response' = wechat_response(content_elements, downloaded_images)
    /\ pc' = "done"
    /\ UNCHANGED <<family, url, doc, reply_elems, content_elements, processed_texts,
                   ran, result, replies, all_images, outcomes, downloaded_images,
                   comments_markdown, setup,
                   storage, meta>>

Next ==
    \/ TiebaParse
    \/ BreakSegmentedWalk
    \/ ElementWalk
    \/ SentenceSplit
    \/ LiberalTextWalk
    \/ TiebaAssemble
    \/ WeChatParseHtml
    \/ WeChatExtractFromPage
    \/ RespondFailure
    \/ WeChatRetryBrowser
    \/ RespondException
    \/ DownloadImages
    \/ TiebaUpdateMarkdown
    \/ WeChatGenerateMarkdown

Spec == Init /\ [][Next]_vars

\* ------------------------------------------------------------------------
\* Storage: two route invocations on the threaded server (app.run(...,
\* threaded=True), line 1985), from the arrival of the request and the sweep
\* of old files to the files written
\* ------------------------------------------------------------------------

\* the last second the clock of the storage model reaches
MaxClock == 1

\* datetime.now().strftime('%Y%m%d_%H%M%S'): one value per second
Timestamp(now) == <<"20240101_00000">> \o IntToStr(now)

\* the sanitised, truncated titles and the thread numbers of the pages asked for
SafeTitles == {"post", "news"}

PostIds == {"1", "2"}

\* unique_id = f"{safe_title}_{post_id}_{timestamp}" (line 1617)
unique_id(safe_title, post_id, timestamp) ==
    <<safe_title, "_", post_id, "_">> \o timestamp

\* article_id = f"{safe_title}_{timestamp}" (line 1735)
article_id(safe_title, timestamp) == <<safe_title, "_">> \o timestamp

\* os.path.join(self.images_dir, post_id, img_filename)
ImagePath(route, container_id, img_filename) ==
    <<"static", "/", route, "/", "images", "/">> \o container_id \o <<"/">>
        \o img_filename

\* os.path.join(posts_dir, f"{unique_id}.json") / articles_dir
JsonPath(route, container_id) ==
    <<"static", "/", route, "/", IF route = "tieba" THEN "posts" ELSE "articles", "/">>
        \o container_id \o <<".json">>

InFlight(r) == requests[r].pc \notin {"idle", "done", "rejected"}

\* the one image file a request writes into its container directory
FirstImage(route, container_id) ==
    ImagePath(route, container_id, ImageFilename(1, <<"a", ".", "jpg">>))

\* clean_old_files() of a family's scraper, run for request r: the files older
\* than a day are removed (disk.expired names the families that still hold
\* one; a file written by a request of the model is seconds old), then every
\* container directory that holds no file is removed, whatever its age
clean_old_files(route, r) ==
    LET empty == {d \in disk.dirs :
                     /\ d.route = route
                     /\ \A f \in files : f.path # FirstImage(d.route, d.id)}
        gone == {[what |-> "file", route |-> route, id |-> <<>>] :
                     x \in disk.expired \cap {route}}
                  \cup {[what |-> "dir", route |-> route, id |-> d.id] : d \in empty}
    IN  [disk EXCEPT !.expired = @ \ {route},
                     !.dirs = @ \ empty,
                     !.removed[r] = @ \cup gone]

\* a request with a url arrives at a route: the route runs its scraper's
\* clean_old_files() before it looks at the url (lines 1596-1597, 1715-1716)
Sweep(r) ==
    /\ requests[r].pc = "idle"
    /\ \E route \in {"tieba", "wechat"} :
         /\ requests' = [requests EXCEPT ![r].pc = "swept", ![r].route = route]
         /\ disk' = clean_old_files(route, r)
    /\ overlap' = (overlap \/ \E o \in Requests \ {r} : InFlight(o))
    /\ UNCHANGED <<clock, files>>

\* the two answers with status 400: a body without url, before anything else
\* (lines 1585-1589, 1704-1708), and a url of another site, after the sweep
\* (lines 1600-1604, 1719-1723)
Reject(r) ==
    /\ \/ /\ requests[r].pc = "idle"
          /\ \E route \in {"tieba", "wechat"} :
               requests' = [requests EXCEPT ![r].pc = "rejected", ![r].route = route]
       \/ /\ requests[r].pc = "swept"
          /\ requests' = [requests EXCEPT ![r].pc = "rejected"]
    /\ UNCHANGED <<clock, files, overlap, disk>>

\* the url is of the route's site and the scraper returns the page's data
Scraped(r) ==
    /\ requests[r].pc = "swept"
    /\ \E t \in SafeTitles, p \in PostIds :
         /\ requests[r].route = "wechat" => p = "1"
         /\ requests' = [requests EXCEPT ![r] =
                [pc |-> "scraped", route |-> requests[r].route, safe_title |-> t,
                 post_id |-> IF requests[r].route = "tieba" THEN p ELSE "",
                 id |-> <<>>]]
    /\ UNCHANGED <<clock, files, overlap, disk>>

\* lines 1612-1617 and 1731-1735: the container id is made from the data and
\* the clock
MakeId(r) ==
    /\ requests[r].pc = "scraped"
    /\ requests' = [requests EXCEPT ![r].pc = "named",
                                    ![r].id =
            IF requests[r].route = "tieba"
            THEN unique_id(requests[r].safe_title, requests[r].post_id,
                           Timestamp(clock))
            ELSE article_id(requests[r].safe_title, Timestamp(clock))]
    /\ UNCHANGED <<clock, files, overlap, disk>>

\* download_images, when images are asked for and the page has one, creates
\* the container directory before its loop (lines 183-186, 1088-1091)
MakeDir(r) ==
    /\ requests[r].pc = "named"
    /\ \E images \in BOOLEAN :
         IF images
         THEN /\ disk' = [disk EXCEPT !.dirs = @ \cup
                            {[route |-> requests[r].route, id |-> requests[r].id]}]
              /\ requests' = [requests EXCEPT ![r].pc = "dir"]
         ELSE /\ requests' = [requests EXCEPT ![r].pc = "images"]
              /\ UNCHANGED disk
    /\ UNCHANGED <<clock, files, overlap>>

\* the loop fetches the image and writes it below the container directory;
\* open(img_path, 'wb') fails when the directory is gone, and the failure is
\* caught like any other of the image (lines 197-243)
WriteImage(r) ==
    /\ requests[r].pc = "dir"
    /\ IF [route |-> requests[r].route, id |-> requests[r].id] \in disk.dirs
       THEN /\ \E stored \in BOOLEAN :
                 files' = IF stored
                          THEN files \cup
                                 {[path |-> FirstImage(requests[r].route, requests[r].id),
                                   writer |-> r]}
                          ELSE files
            /\ UNCHANGED disk
       ELSE /\ disk' = [disk EXCEPT !.missing = @ \cup {r}]
            /\ UNCHANGED files
    /\ requests' = [requests EXCEPT ![r].pc = "images"]
    /\ UNCHANGED <<clock, overlap>>

\* the route writes the result JSON and answers
WriteJson(r) ==
    /\ requests[r].pc = "images"
    /\ files' = files \cup
                  {[path |-> JsonPath(requests[r].route, requests[r].id), writer |-> r]}
    /\ requests' = [requests EXCEPT ![r].pc = "done"]
    /\ UNCHANGED <<clock, overlap, disk>>

\* a second passes
Tick ==
    /\ clock < MaxClock
    /\ clock' = clock + 1
    /\ UNCHANGED <<requests, files, overlap, disk>>

\* the variables of the single-request model
pipeline == <<HAS_CV2, remove_watermarks_arg, pc, family, url, doc, reply_elems,
              content_elements, processed_texts, ran, result, replies, all_images,
              outcomes, downloaded_images, markdown, comments_markdown, response>>

StorageNext ==
    \/ \E r \in Requests : Sweep(r) /\ UNCHANGED <<pipeline, meta>>
    \/ \E r \in Requests : Reject(r) /\ UNCHANGED <<pipeline, meta>>
    \/ \E r \in Requests : Scraped(r) /\ UNCHANGED <<pipeline, meta>>
    \/ \E r \in Requests : MakeId(r) /\ UNCHANGED <<pipeline, meta>>
    \/ \E r \in Requests : MakeDir(r) /\ UNCHANGED <<pipeline, meta>>
    \/ \E r \in Requests : WriteImage(r) /\ UNCHANGED <<pipeline, meta>>
    \/ \E r \in Requests : WriteJson(r) /\ UNCHANGED <<pipeline, meta>>
    \/ Tick /\ UNCHANGED <<pipeline, meta>>

StorageSpec == Init /\ [][StorageNext]_vars

\* ------------------------------------------------------------------------
\* Metadata: extract_post_info (lines 392-443) and the head of
\* WeChatArticleScraperAPI.parse_html_content (lines 1198-1212)
\* ------------------------------------------------------------------------

\* an element of the page head
HeadElement(tag, id, class, text) == [tag |-> tag, id |-> id, class |-> class, text |-> text]

\* the texts a head element may hold: blank, three characters, a title, a
\* forum name with its suffix
HeadTexts ==
    { <<" ">>, <<"a", "b", "c">>, <<" ", "T", "i", "t", "l", "e", " ">>, <<"x", "y", "ba">> }

HeadElements ==
    { HeadElement(t[1], t[2], t[3], x) :
        t \in { <<"h1", "", "core_title_txt">>, <<"h3", "", "p_title">>,
                <<"a", "", "card_title">>, <<"div", "", "forum_name">>,
                <<"h1", "activity-name", "">>, <<"h1", "", "rich_media_title">>,
                <<"span", "js_name", "">>, <<"span", "publish_time", "">> },
        x \in HeadTexts }

\* the most elements a generated page head holds
MaxHead == 2

HeadPages == UNION { [1..n -> HeadElements] : n \in 0..MaxHead }

\* extract_post_info: per field, the selectors in list order; select_one gives
\* the first element of the page the selector matches; the first selector whose
\* element has stripped text longer than the minimum sets the field
extract_post_info(page) ==
    LET select_one(sel) ==
            LET hits == {i \in 1..Len(page) :
                            CASE sel = ".core_title_txt" -> page[i].class = "core_title_txt"
                              [] sel = ".p_title" -> page[i].class = "p_title"
                              [] sel = "h1.core_title_txt" ->
                                     page[i].tag = "h1" /\ page[i].class = "core_title_txt"
                              [] sel = "h3.core_title_txt" ->
                                     page[i].tag = "h3" /\ page[i].class = "core_title_txt"
                              [] sel = "[class*=title]" ->
                                     page[i].class \in {"core_title_txt", "p_title",
                                                        "card_title", "rich_media_title"}
                              [] sel = ".card_title" -> page[i].class = "card_title"
                              [] sel = ".forum_name" -> page[i].class = "forum_name"
                              [] OTHER -> FALSE}
            IN  IF hits = {} THEN <<>> ELSE <<Strip(page[Least(hits)].text)>>
        first(selectors, min) ==
            LET ok == {k \in 1..Len(selectors) :
                          /\ select_one(selectors[k]) # <<>>
                          /\ Len(select_one(selectors[k])[1]) > min}
            IN  IF ok = {} THEN <<>> ELSE select_one(selectors[Least(ok)])
        title == first(<<".core_title_txt", ".p_title", "h1.core_title_txt",
                         "h3.core_title_txt", "[class*=title]">>, 3)
        forum == first(<<".card_title", ".forum_name", "a[href*=/f?kw=]">>, 1)
    IN  [family |-> "forum",
         title |-> IF title = <<>> THEN DefaultTitle ELSE title[1],
         forum_name |-> IF forum = <<>> THEN DefaultForum
                        ELSE SelectSeq(forum[1], LAMBDA c : c # "ba")]

\* the head of the article parser: "a or b or c" over soup.find results takes
\* the first candidate that finds an element, and the field is that element's
\* stripped text, whatever its length
article_metadata(page) ==
    LET find(match(_)) ==
            LET hits == {i \in 1..Len(page) : match(page[i])}
            IN  IF hits = {} THEN <<>> ELSE <<Strip(page[Least(hits)].text)>>
        first(found) ==
            LET ok == {k \in 1..Len(found) : found[k] # <<>>}
            IN  IF ok = {} THEN <<>> ELSE found[Least(ok)]
        title == first(<< find(LAMBDA e : e.tag = "h1" /\ e.id = "activity-name"),
                          find(LAMBDA e : e.tag = "h1" /\ e.class = "rich_media_title"),
                          find(LAMBDA e : e.tag = "h1") >>)
        author == first(<< find(LAMBDA e : e.tag = "span" /\ e.id = "js_name"),
                           find(LAMBDA e : e.tag = "span" /\ e.class = "profile_nickname") >>)
        time == find(LAMBDA e : e.tag = "span" /\ e.id = "publish_time")
    IN  [family |-> "article",
         title |-> IF title = <<>> THEN DefaultTitle ELSE title[1],
         author |-> IF author = <<>> THEN DefaultAuthor ELSE author[1],
         publish_time |-> IF time = <<>> THEN <<"wei4", "zhi1", "shi", "jian">>
                          ELSE time[1]]

\* a parser reads the head of the page it was handed
ExtractInfo ==
    /\ post_info.family = "none"
    /\ \E page \in HeadPages :
         /\ page_head' = page
         /\ \E fam \in {"forum", "article"} :
              post_info' = IF fam = "forum" THEN extract_post_info(page)
                           ELSE article_metadata(page)
    /\ UNCHANGED <<pipeline, storage, browser_calls>>

MetaSpec == Init /\ [][ExtractInfo]_vars

\* ------------------------------------------------------------------------
\* Properties
\* ------------------------------------------------------------------------

\* the extraction pass of the request is complete
Extracted ==
    /\ pc \in {"main_post", "parsed", "downloaded", "done"}
    /\ result.outcome \notin {"failure", "raised"}

\* a node as the pair of its kind and its payload
NodeView(node) ==
    IF node.type = "text" THEN <<"Text", node.content>> ELSE <<"Image", node.src>>

Views(nodes) == [i \in 1..Len(nodes) |-> NodeView(nodes[i])]

PlainPath == <<"/", "i", "/", "1", ".", "jpg">>

HelloWorldScenario == Extracted /\ doc = HelloWorldDoc /\ url = XUrl

TextSources(node) ==
    {i \in 1..Len(doc.kids) :
        /\ doc.kids[i].tag # "img"
        /\ doc.kids[i].tag # "br"
        /\ Strip(inner_text(Element("div", <<doc.kids[i]>>))) = node.content}

ImageSources(node, origin) ==
    {i \in 1..Len(doc.kids) :
        /\ doc.kids[i].tag = "img"
        /\ ResolveUrl(doc.kids[i].src, origin) = node.src}

FamilyOrigin == IF family = "forum" THEN TiebaOrigin ELSE WeChatOrigin

\* C2: the node sequence reflects document position: whenever an emitted
\* image comes before (after) an emitted text in the document, the image
\* node comes before (after) the text node in the output.
C2_DocumentOrder ==
    Extracted =>
        \A a, b \in 1..Len(content_elements) :
            (content_elements[a].type = "text" /\ content_elements[b].type = "image") =>
                \A i \in TextSources(content_elements[a]) :
                    \A j \in ImageSources(content_elements[b], FamilyOrigin) :
                        /\ (Cardinality(TextSources(content_elements[a])) = 1
                            /\ Cardinality(ImageSources(content_elements[b],
                                                        FamilyOrigin)) = 1)
                           => ((j < i) <=> (b < a))

C4_NoDuplicateImages ==
    Extracted =>
        /\ \A i, j \in 1..Len(content_elements) :
               (i < j /\ content_elements[i].type = "image"
                      /\ content_elements[j].type = "image")
                   => content_elements[i].src # content_elements[j].src
        /\ \A i, j \in 1..Len(all_images) :
               i < j => all_images[i].src # all_images[j].src

\* C5: no two text nodes of one extraction pass have identical content, in
\* every walking strategy of both families.
C5_NoDuplicateTexts ==
    Extracted =>
        \A i, j \in 1..Len(content_elements) :
            (i < j /\ content_elements[i].type = "text"
                   /\ content_elements[j].type = "text")
                => content_elements[i].content # content_elements[j].content

CascadeOrder == <<"BreakSegmented", "ElementWalk", "SentenceSplit", "LiberalTextWalk">>

LastStrategy == ran[Len(ran)].strategy

\* C6: in extract_post_content the strategies run in cascade order, a later
\* strategy runs only if every earlier one produced zero nodes, and the
\* returned nodes are the output of exactly one strategy (the last one run).
C6_CascadeRule ==
    family = "forum" =>
        /\ Len(ran) <= Len(CascadeOrder)
        /\ \A i \in 1..Len(ran) : ran[i].strategy = CascadeOrder[i]
        /\ \A i \in 1..Len(ran) : \A j \in 1..(i - 1) : ran[j].produced = 0
        /\ ran # <<>> => Len(content_elements) = ran[Len(ran)].produced
        /\ Extracted =>
               \/ content_elements # <<>>
               \/ Len(ran) = Len(CascadeOrder)

C6_Witness ==
    /\ family = "forum"
    /\ pc = "main_post"
    /\ Len(ran) = 3
    /\ LastStrategy = "SentenceSplit"
    /\ content_elements # <<>>

SentenceEnds == {"o.", "f!", "f?", ".", "!", "?"}

\* a content root with no element and no image under it, whose text has a
\* sentence-ending mark
PlainPunctuatedRoot ==
    /\ Len(doc.kids) = 1
    /\ doc.kids[1].kind = "text"
    /\ \E i \in 1..Len(doc.kids[1].text) : doc.kids[1].text[i] \in SentenceEnds

\* the text of such a root passes the validity filter and the normaliser
RootTextAccepted ==
    /\ is_valid_text_content(Strip(EscapeText(doc.kids[1].text)), {})
    /\ Truthy(clean_text_content(Strip(EscapeText(doc.kids[1].text))))

\* C7 as stated: a root with no text-bearing leaf element and no image, whose
\* flattened text contains sentence-ending punctuation, is resolved by
\* SentenceSplit, not by the Primary walk and not by LiberalTextWalk.
C7_ResolvedBySentenceSplit ==
    (family = "forum" /\ pc = "main_post" /\ PlainPunctuatedRoot) =>
        LastStrategy = "SentenceSplit"

\* C7 as amended: such a root is resolved by the Primary walk, as one text
\* node, whenever its text passes the validity filter and the normaliser; it
\* reaches a later strategy only when the text does not, and is resolved by
\* SentenceSplit only if moreover the text is longer than twenty characters.
C7_SentenceSplitAfterPrimary ==
    (family = "forum" /\ pc = "main_post" /\ PlainPunctuatedRoot) =>
        /\ RootTextAccepted =>
               /\ LastStrategy = "BreakSegmented"
               /\ Len(content_elements) = 1
        /\ ~RootTextAccepted => LastStrategy # "BreakSegmented"
        /\ LastStrategy = "SentenceSplit" =>
               /\ ~RootTextAccepted
               /\ Len(doc.kids[1].text) > MinDirectTextLen
               /\ content_elements # <<>>

C7_Witness ==
    /\ family = "forum"
    /\ pc = "main_post"
    /\ PlainPunctuatedRoot
    /\ ~RootTextAccepted
    /\ LastStrategy = "SentenceSplit"
    /\ Len(content_elements) = 1

\* C8: a text exactly equal to an entry of filter_patterns is never the
\* content of a text node, whichever cascade strategy produced the result.
C8_NoBlacklistedPhrase ==
    (family = "forum" /\ Extracted) =>
        \A i \in 1..Len(content_elements) :
            content_elements[i].type = "text" =>
                \A k \in 1..Len(filter_patterns) :
                    content_elements[i].content # filter_patterns[k]

CdnUrl ==
    <<"https:", "/", "/", "cdn", ".", "example", ".", "com", "/", "a", ".", "jpg">>

RootPath == <<"/", "img", "/", "a", ".", "jpg">>

RelativeUrlScenario == Extracted /\ doc = RelativeUrlDoc /\ url = SiteExampleUrl

IndexFrom(md, c, i) ==
    LET at == {a \in i..Len(md) : md[a] = c}
    IN  IF at = {} THEN 0 ELSE Least(at)

\* the index of the ")" that ends an image reference starting at a, else 0
RefEnd(md, a) ==
    LET close == IndexFrom(md, "]", a + 2)
    IN  IF \/ a + 1 > Len(md) \/ md[a] # "!" \/ md[a + 1] # "["
           \/ close = 0 \/ close + 1 > Len(md)
        THEN 0
        ELSE IF md[close + 1] # "(" THEN 0
        ELSE IndexFrom(md, ")", close + 2)

\* re.findall(r'!\[[^\]]*\]\(([^)]*)\)', md): the targets of the image
\* references of a document, in textual order
RECURSIVE ImageRefsFrom(_, _)
ImageRefsFrom(md, i) ==
    LET starts == {a \in i..Len(md) : RefEnd(md, a) # 0}
    IN  IF starts = {} THEN <<>>
        ELSE <<SubSeq(md, IndexFrom(md, "]", Least(starts) + 2) + 2,
                      RefEnd(md, Least(starts)) - 1)>>
                 \o ImageRefsFrom(md, RefEnd(md, Least(starts)) + 1)

ImageRefs(md) == ImageRefsFrom(md, 1)

Rule == <<"-", "-", "-", "LF", "LF">>

\* the part of a rendered document after its header
BodyOf(md) ==
    IF family = "forum"
    THEN SubSeq(md, Least({a \in 1..Len(md) : MatchAt(md, Rule, a)}) + Len(Rule),
                Len(md))
    ELSE SubSeq(md, Len(DefaultTitle) + 5, Len(md))

\* the blocks of a rendered body read back as nodes: a block that opens with
\* an image reference is an image, any other block is a text paragraph
DocumentItems(md) ==
    LET blocks == SelectSeq(Split(BodyOf(md), <<"LF", "LF">>), LAMBDA b : b # <<>>)
    IN  [k \in 1..Len(blocks) |->
            IF RefEnd(blocks[k], 1) # 0
            THEN <<"Image", ImageRefs(blocks[k])[1]>>
            ELSE <<"Text", blocks[k]>>]

\* the nodes with each image under the address the mapping gives it
MappedViews ==
    [i \in 1..Len(content_elements) |->
        IF content_elements[i].type = "image"
        THEN <<"Image", MappedUrl(downloaded_images, content_elements[i].src)>>
        ELSE NodeView(content_elements[i])]

\* C10: the image references of the rendered document, read back in textual
\* order, have the count and the order of the image nodes of the result, and
\* paragraphs and image references appear in the interleaved order of the
\* node sequence.
C10_RenderRoundTrip ==
    (pc = "done" /\ result.outcome = "success") =>
        /\ ImageRefs(markdown) =
               [i \in 1..Len(ImagesOf(content_elements)) |->
                   MappedUrl(downloaded_images, ImagesOf(content_elements)[i].src)]
        /\ DocumentItems(markdown) = MappedViews

\* ------------------------------------------------------------------------
\* Image pipeline and error handling
\* ------------------------------------------------------------------------

\* download_images has run on a non-empty batch
BatchRan == pc \in {"downloaded", "done"} /\ outcomes # <<>>

\* the positions of the batch whose file was written
Succeeded ==
    {i \in 1..Len(all_images) : all_images[i].src # <<>> /\ outcomes[i] \in Stored}

\* C11: a failure of one image (an exception of the request or of the file
\* write, or a status other than 200) never ends the batch: whatever happened
\* to the other images, every image whose file was written has its asset in
\* the returned list, and the list holds nothing else
C11_FailureIsolation ==
    BatchRan =>
        /\ Len(downloaded_images) = Cardinality(Succeeded)
        /\ \A i \in Succeeded :
             \E k \in 1..Len(downloaded_images) :
                /\ downloaded_images[k].original_url = all_images[i].src
                /\ downloaded_images[k].filename = ImageFilename(i, all_images[i].src)

\* a batch in which an image fails and a later one is stored all the same
C11_Witness ==
    /\ BatchRan
    /\ \E i, k \in 1..Len(outcomes) :
          /\ i < k
          /\ outcomes[i] \in {"exception", "status"}
          /\ k \in Succeeded
    /\ downloaded_images # <<>>

\* the route has answered a request whose extraction found nothing at all
NothingExtracted ==
    /\ pc = "done"
    /\ content_elements = <<>>
    /\ all_images = <<>>
    /\ \A k \in 1..Len(replies) : replies[k].content_elements = <<>>

\* C12: a request for which every strategy produced zero nodes (no text and
\* no image) is answered as a failure, success = false with a reason, never
\* as a success
C12_EmptyExtractionIsFailure ==
    NothingExtracted =>
        /\ response.success = FALSE
        /\ "error" \in DOMAIN response

\* the route has answered a request whose batch was downloaded in part, or
\* not at all
PartialBatch ==
    /\ pc = "done"
    /\ outcomes # <<>>
    /\ Cardinality(Succeeded) < Len(all_images)

\* C13: a request of which only some, possibly none, of the images were
\* materialized is still answered with success = true, and the answer reports
\* the number of images requested (total_images, the one field of either route
\* that counts them) and the number materialized (image_count), the second
\* never above the first
C13_PartialSuccessReported ==
    PartialBatch =>
        /\ response.success = TRUE
        /\ {"image_count", "total_images"} \subseteq DOMAIN response
        /\ response.image_count = Cardinality(Succeeded)
        /\ response.total_images = Len(all_images)
        /\ response.image_count <= response.total_images

\* C14: parse_html_content of either family never raises to its caller: once
\* it has stopped running it has returned a result tagged success or failure,
\* a failure carrying an error message
C14_ParseNeverRaises ==
    (result.entry = "parse_html_content" /\ result.outcome # "pending") =>
        /\ result.outcome \in {"success", "failure"}
        /\ result.outcome = "failure" => result.error # ""

\* ------------------------------------------------------------------------
\* Storage
\* ------------------------------------------------------------------------

Named(r) == requests[r].pc \in {"named", "images", "done"}

\* C15: two requests processed concurrently have distinct container ids, so
\* no path below static/ is written by both of them
C15_DistinctContainers ==
    overlap =>
        /\ \A r, o \in Requests :
             (r # o /\ Named(r) /\ Named(o) /\ requests[r].route = requests[o].route)
                 => requests[r].id # requests[o].id
        /\ \A f, g \in files : f.path = g.path => f.writer = g.writer

\* ------------------------------------------------------------------------
\* Image eligibility
\* ------------------------------------------------------------------------

Range(seq) == {seq[i] : i \in 1..Len(seq)}

\* the media hosts and the marker classes the code of a family names; the
\* article family's code names none
MediaHosts(fam) ==
    IF fam = "forum"
    THEN { <<"imgsrc", ".", "baidu", ".", "com">>,
           <<"hiphotos", ".", "baidu", ".", "com">>,
           <<"tiebapic", ".", "baidu", ".", "com">> }
    ELSE {}

MarkerClasses(fam) == IF fam = "forum" THEN {"BDE_Image"} ELSE {}

\* the resolved addresses of the eligible images below a root
EligibleSources(root, fam, origin) ==
    { ResolveUrl(FirstSet(<<e.src, e.data_original, e.original, e.data_src>>), origin) :
        e \in { x \in Range(find_all_named(root, {"img"})) :
                  \/ x.class \cap MarkerClasses(fam) # {}
                  \/ \E h \in MediaHosts(fam) :
                        Contains(ResolveUrl(FirstSet(<<x.src, x.data_original,
                                                       x.original, x.data_src>>),
                                            origin), h) } }

\* every image node of the request comes from an eligible image
OnlyEligibleImages ==
    /\ \A i \in 1..Len(content_elements) :
          content_elements[i].type = "image" =>
              content_elements[i].src \in EligibleSources(doc, family, FamilyOrigin)
    /\ \A k \in 1..Len(replies) :
          \A i \in 1..Len(replies[k].content_elements) :
             replies[k].content_elements[i].type = "image" =>
                 replies[k].content_elements[i].src \in
                     EligibleSources(reply_elems[replies[k].floor - 1], family,
                                     FamilyOrigin)

\* C16: in the forum family an image node is emitted only for an image whose
\* resolved address is on a Baidu media host or whose element carries the
\* class BDE_Image, in every strategy and in the replies; the article family
\* has no allow pattern and emits every image that has a source
C16_ForumEligibility ==
    /\ (Extracted /\ family = "forum") => OnlyEligibleImages
    /\ (Extracted /\ family = "article" /\ result.outcome = "success") =>
          \A e \in Range(find_all_named(doc, {"img"})) :
             WeChatImgSrc(e) # <<>> =>
                 \E n \in Range(ImagesOf(content_elements)) :
                    n.src = ResolveUrl(WeChatImgSrc(e), WeChatOrigin)

\* C16 as claimed: in both families an image node is emitted only for an
\* eligible image
C16_EligibilityEverywhere == Extracted => OnlyEligibleImages

\* a forum post with an image on a media host and one that is neither on a
\* media host nor marked: only the first became a node
C16_Witness ==
    /\ family = "forum"
    /\ pc = "done"
    /\ doc.kids = <<ImgPlain, ImgHosted>>
    /\ Len(ImagesOf(content_elements)) = 1
    /\ ImagesOf(content_elements)[1].src = ImgHosted.src

\* ------------------------------------------------------------------------
\* The batch of download_images
\* ------------------------------------------------------------------------

\* C17: within one batch each distinct absolute URL is stored at most once
\* and yields at most one asset, also when the same image stands in the main
\* post and in a reply
C17_OneAssetPerUrl ==
    BatchRan =>
        \A a, b \in 1..Len(downloaded_images) :
           downloaded_images[a].original_url = downloaded_images[b].original_url
               => a = b

\* the k-th smallest position of a set of positions
NthOf(S, k) == CHOOSE i \in S : Cardinality({j \in S : j < i}) = k - 1

\* the sequence number in a stored file's name "image_NNN.ext"
NumberOf(filename) == SubSeq(filename, 2, 4)

\* C18: the file of an image is numbered by the image's position in the
\* input list: the k-th returned asset belongs to the k-th image that was
\* stored and carries that image's position, so the numbers rise along the
\* returned list and pass over the positions of failed images
C18_NumberedByPosition ==
    BatchRan =>
        \A k \in 1..Len(downloaded_images) :
           /\ k <= Cardinality(Succeeded)
           /\ NumberOf(downloaded_images[k].filename) = Pad3(NthOf(Succeeded, k))
           /\ downloaded_images[k].original_url = all_images[NthOf(Succeeded, k)].src

\* C18 as claimed: the k-th stored image is named image_{k:03}, so the
\* returned assets use the numbers 1..m with none left out
C18_NumberedBySuccess ==
    BatchRan =>
        \A k \in 1..Len(downloaded_images) :
           NumberOf(downloaded_images[k].filename) = Pad3(k)

\* a batch whose first image fails and whose second is stored as image_002
C18_Witness ==
    /\ BatchRan
    /\ Len(outcomes) >= 2
    /\ outcomes[1] \notin Stored
    /\ outcomes[2] \in Stored
    /\ NumberOf(downloaded_images[1].filename) = Pad3(2)

\* ------------------------------------------------------------------------
\* The image join of the renderer
\* ------------------------------------------------------------------------

\* the route has rendered the final document of a request
Rendered == pc = "done" /\ result.outcome = "success"

\* where the reference of an image node may point: the local path of an asset
\* downloaded for its source, else the source itself
Targets(src) ==
    LET local == {downloaded_images[i].image_url :
                     i \in {j \in 1..Len(downloaded_images) :
                               downloaded_images[j].original_url = src}}
    IN  IF local = {} THEN {src} ELSE local

\* the targets of the references labelled "label k" in a document
TargetsIn(md, label, k) ==
    LET open == <<"!", "[">> \o label \o IntToStr(k) \o <<"]", "(">>
    IN  {SubSeq(md, a + Len(open), IndexFrom(md, ")", a + Len(open)) - 1) :
            a \in {b \in 1..Len(md) : MatchAt(md, open, b)}}

\* every image node of a node list has references in the document, all of
\* them pointing where the mapping says
Joined(md, nodes, label) ==
    \A k \in 1..Len(ImagesOf(nodes)) :
       /\ TargetsIn(md, label, k) # {}
       /\ TargetsIn(md, label, k) \subseteq Targets(ImagesOf(nodes)[k].src)

\* C19: in the final document every image node has its reference, pointing
\* to the local path when the mapping has an entry for the node's source and
\* to the node's resolved URL otherwise; this holds for the main document of
\* both families and for the replies of a thread
C19_ImageJoin ==
    Rendered =>
        /\ Joined(markdown, content_elements, PictureLabel)
        /\ \A r \in 1..Len(replies) :
              Joined(comments_markdown, replies[r].content_elements,
                     IntToStr(replies[r].floor) \o <<"lou">> \o PictureLabel)

\* a thread rendered with one image downloaded and another one not
C19_Witness ==
    /\ Rendered
    /\ family = "forum"
    /\ Len(ImagesOf(content_elements)) = 2
    /\ outcomes = <<"stored", "status">>
    /\ TargetsIn(markdown, PictureLabel, 1) = {downloaded_images[1].image_url}
    /\ TargetsIn(markdown, PictureLabel, 2) = {ImagesOf(content_elements)[2].src}

\* ------------------------------------------------------------------------
\* The watermark step
\* ------------------------------------------------------------------------

\* C20: without OpenCV (HAS_CV2 false) every asset returned by
\* download_images has watermark_removed = false, whatever flag the scraper
\* was constructed with, and the batch loses no image by it: each image whose
\* file was written has its asset
C20_NoWatermarkStepWithoutCv2 ==
    (BatchRan /\ ~HAS_CV2) =>
        /\ \A k \in 1..Len(downloaded_images) :
              downloaded_images[k].watermark_removed = FALSE
        /\ Len(downloaded_images) = Cardinality(Succeeded)

\* a scraper constructed with remove_watermarks = True on a host without
\* OpenCV has stored an image OpenCV could have processed
C20_Witness ==
    /\ BatchRan
    /\ ~HAS_CV2
    /\ remove_watermarks_arg
    /\ \E i \in Succeeded : outcomes[i] = "inpainted"
    /\ downloaded_images # <<>>

\* ------------------------------------------------------------------------
\* Selector resolution
\* ------------------------------------------------------------------------

\* the elements of the page each candidate of a field matches, in list order
Matching(fam, field) ==
    LET where(match(_)) == {i \in 1..Len(page_head) : match(page_head[i])}
    IN  CASE fam = "forum" /\ field = "title" ->
               << where(LAMBDA e : e.class = "core_title_txt"),
                  where(LAMBDA e : e.class = "p_title"),
                  where(LAMBDA e : e.tag = "h1" /\ e.class = "core_title_txt"),
                  where(LAMBDA e : e.tag = "h3" /\ e.class = "core_title_txt"),
                  where(LAMBDA e : e.class \in {"core_title_txt", "p_title", "card_title",
                                                "rich_media_title"}) >>
          [] fam = "forum" /\ field = "forum_name" ->
               << where(LAMBDA e : e.class = "card_title"),
                  where(LAMBDA e : e.class = "forum_name") >>
          [] fam = "article" /\ field = "title" ->
               << where(LAMBDA e : e.tag = "h1" /\ e.id = "activity-name"),
                  where(LAMBDA e : e.tag = "h1" /\ e.class = "rich_media_title"),
                  where(LAMBDA e : e.tag = "h1") >>
          [] fam = "article" /\ field = "author" ->
               << where(LAMBDA e : e.tag = "span" /\ e.id = "js_name"),
                  where(LAMBDA e : e.tag = "span" /\ e.class = "profile_nickname") >>
          [] OTHER ->
               << where(LAMBDA e : e.tag = "span" /\ e.id = "publish_time") >>

\* the least length a field's text must exceed
FieldMinimum(fam, field) ==
    IF fam = "forum" THEN (IF field = "title" THEN 3 ELSE 1) ELSE 0

Placeholder(field) ==
    CASE field = "title" -> DefaultTitle
      [] field = "forum_name" -> DefaultForum
      [] field = "author" -> DefaultAuthor
      [] OTHER -> <<"wei4", "zhi1", "shi", "jian">>

\* the value the rule gives a field: the trimmed text of the first candidate
\* that matches with a text longer than the minimum, else the placeholder
Resolved(fam, field) ==
    LET c == Matching(fam, field)
        text(k) == Strip(page_head[Least(c[k])].text)
        ok == {k \in 1..Len(c) : c[k] # {} /\ Len(text(k)) > FieldMinimum(fam, field)}
    IN  IF ok = {} THEN Placeholder(field) ELSE text(Least(ok))

\* C21: each metadata field holds the trimmed text of the first candidate, in
\* list order, that matches with a text longer than the field's minimum; a
\* candidate with a shorter text does not end the search; with no such
\* candidate the field holds its placeholder
C21_SelectorResolution ==
    post_info.family # "none" =>
        \A field \in DOMAIN post_info \ {"family"} :
           post_info[field] = Resolved(post_info.family, field)

\* ------------------------------------------------------------------------
\* Break-segmented walk
\* ------------------------------------------------------------------------

\* the break-segmented walk has just produced content_elements
AfterBreakWalk == family = "forum" /\ Len(ran) = 1 /\ pc \in {"element_walk", "main_post"}

\* the image nodes of the eligible images of a content root, one per resolved
\* source, in document order
EligibleDistinct(content_elem) ==
    LET imgs == find_all_named(content_elem, {"img"})
        resolved(i) == ResolveUrl(TiebaImgSrc(imgs[i]), TiebaOrigin)
        eligible == {i \in 1..Len(imgs) :
                        /\ TiebaImgSrc(imgs[i]) # <<>>
                        /\ IsTiebaContentImage(resolved(i), imgs[i].class)}
        firsts == {i \in eligible : \A j \in eligible : j < i => resolved(j) # resolved(i)}
        kept == SelectSeq([i \in 1..Len(imgs) |-> i], LAMBDA i : i \in firsts)
    IN  [k \in 1..Len(kept) |-> TiebaImage(resolved(kept[k]), imgs[kept[k]].alt)]

\* the interleaving rule: each segment, then the next eligible image not yet
\* emitted; the images left after the last segment follow in order
RECURSIVE Interleaved(_, _, _, _)
Interleaved(st, parts, k, images) ==
    IF k > Len(parts) THEN st.content_elements \o images
    ELSE LET p == Strip(parts[k])
             s1 == IF p # <<>> THEN EmitText(st, p, "text") ELSE st
         IN  IF images = <<>> THEN Interleaved(s1, parts, k + 1, images)
             ELSE Interleaved([s1 EXCEPT !.content_elements = Append(@, Head(images))],
                              parts, k + 1, Tail(images))

\* C22: after each segment of the break-segmented walk the next eligible
\* image not yet emitted is emitted, an ineligible, source-less or repeated
\* image in between being passed over; the images left over after the last
\* segment follow in their original order
C22_Interleaving ==
    AfterBreakWalk =>
        content_elements = Interleaved(EmptyWalk, text_parts(doc), 1, EligibleDistinct(doc))

C23_NoMarkerText ==
    family = "forum" =>
        \A i \in 1..Len(content_elements) :
           content_elements[i].type = "text" =>
              /\ content_elements[i].content # <<>>
              /\ \A m \in QuoteMarkers : ~StartsWith(content_elements[i].content, m)

\* ------------------------------------------------------------------------
\* Sentence split
\* ------------------------------------------------------------------------

\* the sentence split has just produced content_elements
SentenceSplitRan == family = "forum" /\ Len(ran) = 3 /\ pc \in {"liberal_walk", "main_post"}

\* the segments of a text: split on the one delimiter that comes first in
\* priority order among those occurring in it
SegmentsOf(text) ==
    IF Contains(text, <<"o.">>) THEN Split(text, <<"o.">>)
    ELSE IF Contains(text, <<"f!">>) THEN Split(text, <<"f!">>)
    ELSE IF Contains(text, <<"f?">>) THEN Split(text, <<"f?">>)
    ELSE IF Contains(text, <<"LF", "LF">>) THEN Split(text, <<"LF", "LF">>)
    ELSE IF Contains(text, <<"CR", "LF">>) THEN Split(text, <<"CR", "LF">>)
    ELSE <<text>>

\* a segment with its terminal mark
Terminated(segment) ==
    IF Len(segment) > 0 /\ segment[Len(segment)] \in {"o.", "f!", "f?", ".", "!", "?"}
    THEN segment ELSE segment \o <<"o.">>

\* C24: every node the sentence split emits is a text node obtained from a
\* segment of the flattened text, split on the first delimiter in priority
\* order that occurs in it, the segment being longer than 5 characters and,
\* with its terminal mark, accepted by the text validity filter; no node is
\* an image
C24_SentenceSplit ==
    SentenceSplitRan =>
        \A i \in 1..Len(content_elements) :
           /\ content_elements[i].type = "text"
           /\ \E k \in 1..Len(SegmentsOf(get_text_sep_strip(doc))) :
                LET segment == Strip(SegmentsOf(get_text_sep_strip(doc))[k])
                IN  /\ Len(segment) > 5
                    /\ is_valid_text_content(Terminated(segment), {})
                    /\ content_elements[i].content =
                           clean_text_content(Terminated(segment)).text

\* the split dropped the blacklisted first sentence and kept the second,
\* which holds a delimiter of lower priority
C24_Witness ==
    /\ SentenceSplitRan
    /\ Len(content_elements) = 1
    /\ Len(SegmentsOf(get_text_sep_strip(doc))) = 2
    /\ Contains(content_elements[1].content, <<"f!">>)

\* ------------------------------------------------------------------------
\* Browser sessions
\* ------------------------------------------------------------------------

\* C26: scrape_wechat_article invokes scrape_with_browser at most once
\* before the request returns, whatever the pre-check, the parse of the HTML
\* and the browser session do
C26_BrowserStartedOnce == browser_calls <= 1

\* ------------------------------------------------------------------------
\* Expiry sweep
\* ------------------------------------------------------------------------

\* C27: between the creation of a request's container directory and the
\* writing of its image files, a sweep run for a concurrent request removes
\* neither that directory nor a file younger than the age limit, so no image
\* write fails because of a sweep
C27_SweepKeepsContainer ==
    /\ \A r \in Requests :
          requests[r].pc = "dir" =>
             [route |-> requests[r].route, id |-> requests[r].id] \in disk.dirs
    /\ disk.missing = {}

\* C29: a request answered with status 400, for a missing url or for a url
\* of another site, leaves the stored files as they were: nothing was
\* deleted, created or rewritten on its behalf
C29_RejectedHasNoEffect ==
    \A r \in Requests :
       requests[r].pc = "rejected" =>
          /\ disk.removed[r] = {}
          /\ \A f \in files : f.writer # r

\* ------------------------------------------------------------------------
\* Asset records
\* ------------------------------------------------------------------------

\* C28: every asset download_images returns belongs to an input image that
\* was answered with status 200 and written to the asset's file; the assets
\* keep the relative order of the input images, are at most as many, and
\* their filenames differ pairwise
C28_AssetsAreStoredFiles ==
    BatchRan =>
        LET from(k) == {i \in 1..Len(all_images) :
                           /\ outcomes[i] \in {"stored", "inpainted"}
                           /\ downloaded_images[k].original_url = all_images[i].src
                           /\ downloaded_images[k].filename =
                                  ImageFilename(i, all_images[i].src)}
        IN  /\ Len(downloaded_images) <= Len(all_images)
            /\ \A k \in 1..Len(downloaded_images) : from(k) # {}
            /\ \A a, b \in 1..Len(downloaded_images) :
                  a < b => \A i \in from(a) : \A j \in from(b) : i < j
            /\ \A a, b \in 1..Len(downloaded_images) :
                  a # b => downloaded_images[a].filename # downloaded_images[b].filename

\* a batch with an image answered with another status and a stored one
C28_Witness ==
    /\ BatchRan
    /\ Len(downloaded_images) >= 1
    /\ Len(downloaded_images) < Len(all_images)
    /\ \E i \in 1..Len(outcomes) : outcomes[i] = "status"

\* ------------------------------------------------------------------------
\* Article HTML walk
\* ------------------------------------------------------------------------

\* the article HTML walk has just produced content_elements
HtmlWalked ==
    /\ family = "article"
    /\ pc = "parsed"
    /\ ran # <<>>
    /\ ran[Len(ran)].strategy = "ArticleHtmlWalk"

\* C30: in one pass of the article HTML walk no text node's content lies
\* within a strictly longer content emitted before it, every text node comes
\* from a text element that holds no image, and every content is longer than
\* 10 characters
C30_NestedTextSuppressed ==
    HtmlWalked =>
        /\ \A a, b \in 1..Len(content_elements) :
              (/\ a < b
               /\ content_elements[a].type = "text"
               /\ content_elements[b].type = "text"
               /\ Len(content_elements[a].content) > Len(content_elements[b].content))
                  => ~Contains(content_elements[a].content, content_elements[b].content)
        /\ \A k \in 1..Len(content_elements) :
              content_elements[k].type = "text" =>
                 /\ Len(content_elements[k].content) > 10
                 /\ \E e \in Range(find_all(doc)) :
                       /\ e.tag = content_elements[k].tag
                       /\ find_all_named(e, {"img"}) = <<>>
                       /\ Strip(get_text(e)) = content_elements[k].content

\* the walk emitted a paragraph, passed over the span nested in it and over a
\* paragraph that holds an image
C30_Witness ==
    /\ HtmlWalked
    /\ \E k \in 1..Len(content_elements) : content_elements[k].type = "text"
    /\ \E e \in Range(find_all(doc)) :
          /\ e.tag = "span"
          /\ Len(Strip(get_text(e))) > 10
          /\ \A k \in 1..Len(content_elements) :
                content_elements[k].type = "text" =>
                   content_elements[k].content # Strip(get_text(e))
    /\ \E e \in Range(find_all(doc)) :
          /\ e.tag = "p"
          /\ find_all_named(e, {"img"}) # <<>>
          /\ Len(Strip(get_text(e))) > 10

====
